---- MODULE Spec2Model ----
(***************************************************************************)
(* Maze generation (randomized Kruskal, randomized Prim) and Dijkstra      *)
(* search of the pathfinding-projects components, as state machines.       *)
(*                                                                         *)
(* Each React component is modelled by the refs and state values its       *)
(* handlers read and write.  One action is one handler run to its end      *)
(* together with the re-render and the effects its state updates cause     *)
(* (React commits them before the next event or animation frame is         *)
(* served).  requestAnimationFrame callbacks wait in rafQueue with the     *)
(* values their closure captured at the render that created them, and are  *)
(* served one at a time in the order they were requested.                  *)
(***************************************************************************)
EXTENDS Integers, Sequences, FiniteSets, TLC

VARIABLES
    rows, cols,              \* useState rows / cols (props in the grid drawer)
    cells,                   \* cellsRef.current: position -> status
    source, target,          \* useState source / target (a position or Null)
    drawingMode,             \* useState drawingMode
    isMazeComplete,          \* useState isMazeComplete
    distances, visited, predecessors,   \* distancesRef, visitedRef, predecessorsRef
    dijkstraQueue,           \* dijkstraQueueRef.current
    dijkstraRunningRef, dijkstraRunning, dijkstraPaused,
    dijkstraChunkSize, dijkstraChunkSizeRef,
    shortestPathAnimating,   \* shortestPathAnimatingRef.current
    pathFound, pathLength,   \* useState pathFound / pathLength (grid drawer)
    wallsList,               \* wallsListRef.current (Kruskal)
    groupParents, groupSizes,\* groupParentsRef / groupSizesRef (Kruskal)
    numGroups,               \* useState numGroups (Kruskal)
    kruskalRunningRef, kruskalRunning,
    kruskalChunkSize, kruskalChunkSizeRef,
    frontierList,            \* frontierListRef.current (Prim)
    primRunningRef, primRunning,
    primChunkSize, primChunkSizeRef,
    rafQueue                 \* callbacks handed to requestAnimationFrame, not yet run

gridVars == <<rows, cols, cells, source, target, drawingMode, isMazeComplete>>
searchVars == <<distances, visited, predecessors, dijkstraQueue,
                dijkstraRunningRef, dijkstraRunning, dijkstraPaused,
                dijkstraChunkSize, dijkstraChunkSizeRef,
                shortestPathAnimating, pathFound, pathLength>>
kruskalVars == <<wallsList, groupParents, groupSizes, numGroups,
                 kruskalRunningRef, kruskalRunning,
                 kruskalChunkSize, kruskalChunkSizeRef>>
primVars == <<frontierList, primRunningRef, primRunning,
              primChunkSize, primChunkSizeRef>>
vars == <<gridVars, searchVars, kruskalVars, primVars, rafQueue>>

(***************************************************************************)
(* Bounds of the model.                                                    *)
(***************************************************************************)
\* Side of the square grid of the Kruskal component (the slider's minimum).
KruskalSize == 5
\* requestAnimationFrame callbacks that may wait at the same time.
MaxPendingFrames == 2

\* Math.random() is an input of the model: a draw of an index into a list of
\* n elements picks one of the first DrawSpread or of the last DrawSpread.
DrawSpread == 1
\* Side of the Kruskal grid on which the wall list is shuffled when it is
\* built and the steps pop its last wall.
ShuffledSize == 7
\* Side of a Kruskal grid large enough for "Play Dijkstra" to set a chunk size
\* above 1: floor((cols + rows) / 16) = 2.
ChunkedSize == 17
\* Side of the square grid of the Prim component (the slider goes from 5 in steps of 2).
PrimSize == 7
\* Side of the square grid of the second variant of the Prim component.
SecondSize == 5
\* Group ids 0 .. UnionIds - 1 are the arguments of the calls of findRoot and
\* union made on their own.
UnionIds == 6
\* Side of a Prim grid large enough for "Play Prim" to set a chunk size above 1.
PrimLargeSize == 11

\* Chunk sizes of the Prim component are fractions, (cols + rows) / 20; the
\* model keeps them as whole numbers of twentieths.
PrimChunkUnit == 20
\* Chunk sizes of the search are (cols + rows) / 16, kept in sixteenths.
DijkstraChunkUnit == 16
\* Side of the square grid of the grid drawer.
DrawerSize == 3
\* A second shape of the grid drawer, wide enough for "Play Dijkstra" to set a
\* chunk size above 1: (WideCols + WideRows) / 16 > 1.
WideRows == 1
WideCols == 17
\* Number.POSITIVE_INFINITY of the distance tables
Infinity == 1000000

\* null, where a position is expected
Null == << >>

\* On the grid of side KruskalSize the model takes the random draw that fixes
\* the wall a pop returns when the wall is popped; on the other grids the
\* shuffle is taken when the list is built (shuffleArray) and a pop returns
\* the last wall.
Draws(n) == IF rows = KruskalSize
            THEN {i \in 1 .. n : i <= DrawSpread \/ i > n - DrawSpread}
            ELSE {n}

(***************************************************************************)
(* Grid model.  A position is <<x, y>>.                                    *)
(***************************************************************************)
Positions(r, c) == (0 .. c - 1) \X (0 .. r - 1)

Grid == Positions(rows, cols)

isInBounds(x, y) == x >= 0 /\ y >= 0 /\ x < cols /\ y < rows

createGrid(r, c, status) == [p \in Positions(r, c) |-> status]

\* cell.status "visited" or "shortestPath" back to "passage" (the clear loops)
clearResults(g) ==
    [p \in DOMAIN g |-> IF g[p] \in {"visited", "shortestPath"} THEN "passage" ELSE g[p]]

RemoveAt(s, i) == SubSeq(s, 1, i - 1) \o SubSeq(s, i + 1, Len(s))

(***************************************************************************)
(* Kruskal: initialization.                                                *)
(***************************************************************************)
isRoom(x, y) == y % 2 = 0 /\ x % 2 = 0

\* cells[y][x].groupId: groupCounter when the row-major scan reaches the room
groupIdOf(x, y) == (y \div 2) * ((cols + 1) \div 2) + (x \div 2)

\* the status kruskalInitialization gives each cell
kruskalCells == [p \in Grid |-> IF isRoom(p[1], p[2]) THEN "passage" ELSE "blocked"]

\* the walls pushed when the row-major scan is at cell number k
kruskalWallsAt(k) ==
    LET x == k % cols
        y == k \div cols
        right == IF x < cols - 1 THEN << <<x + 1, y>> >> ELSE << >>
        down == IF y < rows - 1 THEN << <<x, y + 1>> >> ELSE << >>
    IN  IF isRoom(x, y) THEN right \o down ELSE << >>

\* the walls pushed while the scan goes from cell number lo to cell number hi
RECURSIVE kruskalWallsBetween(_, _)
kruskalWallsBetween(lo, hi) ==
    IF lo > hi THEN << >>
    ELSE IF lo = hi THEN kruskalWallsAt(lo)
    ELSE LET mid == (lo + hi) \div 2
         IN  kruskalWallsBetween(lo, mid) \o kruskalWallsBetween(mid + 1, hi)

\* the walls pushed when the row-major scan is at cell number k and after it
kruskalWallsFrom(k) == kruskalWallsBetween(k, rows * cols - 1)

RoomIds == {groupIdOf(p[1], p[2]) : p \in {q \in Grid : isRoom(q[1], q[2])}}

Reverse(s) == [k \in 1 .. Len(s) |-> s[Len(s) + 1 - k]]

\* the elements at the odd places, then those at the even places
Riffle(s) ==
    LET half == (Len(s) + 1) \div 2
    IN  [k \in 1 .. Len(s) |-> IF k <= half THEN s[2 * k - 1] ELSE s[2 * (k - half)]]

\* shuffleArray(walls): the orders the model lets the shuffle leave
shuffleArray(walls) ==
    IF rows = KruskalSize THEN {walls}
    ELSE IF rows = ShuffledSize
    THEN {walls, Reverse(walls), Riffle(walls), Reverse(Riffle(walls))}
    ELSE {Riffle(walls)}

(***************************************************************************)
(* Kruskal: union-find.                                                    *)
(***************************************************************************)
\* a findRoot without parents.set(id, root)
RECURSIVE findRootKeepsChain(_, _)
findRootKeepsChain(parents, id) ==
    IF parents[id] = id THEN [root |-> id, parents |-> parents]
    ELSE findRootKeepsChain(parents, parents[id])

\* findRoot(id) on the parent map `parents`: the root and the compressed map
RECURSIVE findRoot(_, _)
findRoot(parents, id) ==
    IF parents[id] = id THEN [root |-> id, parents |-> parents]
    ELSE LET r == findRoot(parents, parents[id])
         IN  [root |-> r.root, parents |-> [r.parents EXCEPT ![id] = r.root]]

\* union that hangs id2 itself, not its root, under the other tree
unionLinksElement(parents, sizes, id1, id2) ==
    LET f1 == findRoot(parents, id1)
        f2 == findRoot(f1.parents, id2)
    IN  IF f1.root = f2.root
        THEN [parents |-> f2.parents, sizes |-> sizes, merged |-> 0]
        ELSE [parents |-> [f2.parents EXCEPT ![id2] = f1.root],
              sizes |-> [sizes EXCEPT ![f1.root] = sizes[f1.root] + sizes[f2.root]],
              merged |-> 1]

\* union whose test is size1 <= size2: equal sizes keep the second root
unionTiesToSecond(parents, sizes, id1, id2) ==
    LET f1 == findRoot(parents, id1)
        f2 == findRoot(f1.parents, id2)
        root1 == f1.root
        root2 == f2.root
        size1 == sizes[root1]
        size2 == sizes[root2]
    IN  IF root1 = root2
        THEN [parents |-> f2.parents, sizes |-> sizes, merged |-> 0]
        ELSE IF size1 <= size2
        THEN [parents |-> [f2.parents EXCEPT ![root1] = root2],
              sizes |-> [sizes EXCEPT ![root2] = size1 + size2], merged |-> 1]
        ELSE [parents |-> [f2.parents EXCEPT ![root2] = root1],
              sizes |-> [sizes EXCEPT ![root1] = size1 + size2], merged |-> 1]

\* union(id1, id2): the maps afterwards and whether numGroups was decremented
union(parents, sizes, id1, id2) ==
    LET f1 == findRoot(parents, id1)
        f2 == findRoot(f1.parents, id2)
        root1 == f1.root
        root2 == f2.root
        size1 == sizes[root1]
        size2 == sizes[root2]
    IN  IF root1 = root2
        THEN [parents |-> f2.parents, sizes |-> sizes, merged |-> 0]
        ELSE IF size1 < size2
        THEN [parents |-> [f2.parents EXCEPT ![root1] = root2],
              sizes |-> [sizes EXCEPT ![root2] = size1 + size2], merged |-> 1]
        ELSE [parents |-> [f2.parents EXCEPT ![root2] = root1],
              sizes |-> [sizes EXCEPT ![root1] = size1 + size2], merged |-> 1]

(***************************************************************************)
(* Kruskal: one step.  A loop state is                                     *)
(*   [walls, parents, sizes, cells, steps, merged].                        *)
(* shuffleArray fixes array[i] by a uniform draw among array[0..i] and     *)
(* the list is only ever popped from its end, so the walls come out as     *)
(* successive uniform draws without replacement; the model takes each      *)
(* draw when the wall is popped (the draws Draws allows) and keeps the     *)
(* remaining walls in the order kruskalInitialization pushed them.         *)
(***************************************************************************)
flankA(wall) == IF wall[1] % 2 # 0 THEN <<wall[1] - 1, wall[2]>> ELSE <<wall[1], wall[2] - 1>>
flankB(wall) == IF wall[1] % 2 # 0 THEN <<wall[1] + 1, wall[2]>> ELSE <<wall[1], wall[2] + 1>>

\* cells[y][x].groupId of the grid kruskalInitialization filled; only rooms have one
hasGroupId(p) == isRoom(p[1], p[2])

groupIdAt(p) == groupIdOf(p[1], p[2])

differentIds(parents, idA, idB) == idA # idB

\* findRoot(groupIDCellA) !== findRoot(groupIDCellB)
differentRoots(parents, idA, idB) ==
    LET fA == findRoot(parents, idA)
    IN  fA.root # findRoot(fA.parents, idB).root

\* one iteration of the while loop, the popped wall being walls[i]
kruskalIteration(st, i) ==
    LET wall == st.walls[i]
        rest == RemoveAt(st.walls, i)
        cellA == flankA(wall)
        cellB == flankB(wall)
    IN  IF ~isInBounds(cellA[1], cellA[2]) \/ ~isInBounds(cellB[1], cellB[2])
        THEN [st EXCEPT !.walls = rest]
        ELSE IF ~hasGroupId(cellA) \/ ~hasGroupId(cellB)
        THEN [st EXCEPT !.walls = rest]
        ELSE LET idA == groupIdAt(cellA)
                 idB == groupIdAt(cellB)
                 compressed == findRoot(findRoot(st.parents, idA).parents, idB).parents
             IN  IF differentRoots(st.parents, idA, idB)
                 THEN LET u == union(compressed, st.sizes, idA, idB)
                      IN  [walls |-> rest, parents |-> u.parents, sizes |-> u.sizes,
                           cells |-> [st.cells EXCEPT ![wall] = "passage"],
                           steps |-> st.steps + 1, merged |-> st.merged + u.merged]
                 ELSE [st EXCEPT !.walls = rest, !.parents = compressed]

\* the loop states the while loop can end in, from loop state st
RECURSIVE kruskalLoop(_, _)
kruskalLoop(st, chunkSize) ==
    IF st.steps < chunkSize /\ Len(st.walls) > 0
    THEN UNION {kruskalLoop(next, chunkSize) :
                   next \in {kruskalIteration(st, i) : i \in Draws(Len(st.walls))}}
    ELSE {st}

kruskalFinishedEarly(ng) == Len(wallsList) = 0 \/ ng <= 2

\* the test kruskalOneStep opens with
kruskalFinished(ng) == Len(wallsList) = 0 \/ ng <= 1

\* kruskalOneStep(forceOneStep) run by a closure that captured numGroups = ng:
\* the outcomes [walls, parents, sizes, cells, merged, done] it can have, done
\* being the value returned (and the flags set with it)
kruskalOneStep(forceOneStep, ng) ==
    IF kruskalFinished(ng)
    THEN {[walls |-> wallsList, parents |-> groupParents, sizes |-> groupSizes,
           cells |-> cells, merged |-> 0, done |-> TRUE]}
    ELSE LET chunkSize == IF forceOneStep THEN 1 ELSE kruskalChunkSizeRef
             st0 == [walls |-> wallsList, parents |-> groupParents, sizes |-> groupSizes,
                     cells |-> cells, steps |-> 0, merged |-> 0]
         IN  {[walls |-> st.walls, parents |-> st.parents, sizes |-> st.sizes,
               cells |-> st.cells, merged |-> st.merged, done |-> (ng <= 1)] :
                 st \in kruskalLoop(st0, chunkSize)}

\* the refs and the numGroups updates (prev => prev - 1) an outcome leaves behind
kruskalApply(r) ==
    /\ wallsList' = r.walls
    /\ groupParents' = r.parents
    /\ groupSizes' = r.sizes
    /\ cells' = r.cells
    /\ numGroups' = numGroups - r.merged

(***************************************************************************)
(* Kruskal component: handlers.                                            *)
(***************************************************************************)
kruskalClosure == [fn |-> "kruskalStepLoop", numGroups |-> numGroups]

\* "One Step Kruskal": onMouseDown={() => kruskalOneStep(true)}
KruskalOneStepButton ==
    /\ \E r \in kruskalOneStep(TRUE, numGroups) :
          /\ kruskalApply(r)
          /\ IF r.done
             THEN /\ kruskalRunningRef' = FALSE
                  /\ kruskalRunning' = FALSE
                  /\ isMazeComplete' = TRUE
             ELSE UNCHANGED <<kruskalRunningRef, kruskalRunning, isMazeComplete>>
    /\ UNCHANGED <<rows, cols, source, target, drawingMode, searchVars, primVars,
                   kruskalChunkSize, kruskalChunkSizeRef, rafQueue>>

\* "Play Kruskal" (shown while kruskalRunning is false): kruskalPlay, which
\* runs kruskalStepLoop once; the chunk size it sets reaches the ref with the
\* re-render
kruskalPlay ==
    /\ ~kruskalRunning
    /\ Len(rafQueue) < MaxPendingFrames
    /\ IF kruskalRunningRef
       THEN UNCHANGED <<cells, isMazeComplete, kruskalVars, rafQueue>>
       ELSE /\ \E r \in kruskalOneStep(FALSE, numGroups) :
                  /\ kruskalApply(r)
                  /\ kruskalRunningRef' = ~r.done
                  /\ kruskalRunning' = ~r.done
                  /\ isMazeComplete' = r.done
                  /\ rafQueue' = IF r.done THEN rafQueue
                                 ELSE Append(rafQueue, kruskalClosure)
            /\ kruskalChunkSize' = (cols + rows) \div 4
            /\ kruskalChunkSizeRef' = (cols + rows) \div 4
    /\ UNCHANGED <<rows, cols, source, target, drawingMode, searchVars, primVars>>

\* "Stop Kruskal" (shown while kruskalRunning is true)
kruskalStop ==
    /\ kruskalRunning
    /\ kruskalRunningRef' = FALSE
    /\ kruskalRunning' = FALSE
    /\ kruskalChunkSize' = 1
    /\ kruskalChunkSizeRef' = 1
    /\ UNCHANGED <<gridVars, searchVars, primVars, rafQueue,
                   wallsList, groupParents, groupSizes, numGroups>>

\* a step loop that never looks at the running ref
kruskalLoopNeverHalted == FALSE

\* if (!kruskalRunningRef.current) return;
kruskalLoopHalted == ~kruskalRunningRef

\* a kruskalStepLoop without requestAnimationFrame(kruskalStepLoop)
kruskalStepLoopOnce ==
    /\ rafQueue # << >>
    /\ Head(rafQueue).fn = "kruskalStepLoop"
    /\ IF kruskalLoopHalted
       THEN UNCHANGED <<cells, isMazeComplete, kruskalVars>>
       ELSE \E r \in kruskalOneStep(FALSE, Head(rafQueue).numGroups) :
               /\ kruskalApply(r)
               /\ IF r.done
                  THEN /\ kruskalRunningRef' = FALSE
                       /\ kruskalRunning' = FALSE
                       /\ isMazeComplete' = TRUE
                  ELSE UNCHANGED <<kruskalRunningRef, kruskalRunning, isMazeComplete>>
               /\ UNCHANGED <<kruskalChunkSize, kruskalChunkSizeRef>>
    /\ rafQueue' = Tail(rafQueue)
    /\ UNCHANGED <<rows, cols, source, target, drawingMode, searchVars, primVars>>

\* the animation frame serves a waiting kruskalStepLoop
kruskalStepLoop ==
    /\ rafQueue # << >>
    /\ Head(rafQueue).fn = "kruskalStepLoop"
    /\ IF kruskalLoopHalted
       THEN /\ rafQueue' = Tail(rafQueue)
            /\ UNCHANGED <<cells, isMazeComplete, kruskalVars>>
       ELSE \E r \in kruskalOneStep(FALSE, Head(rafQueue).numGroups) :
               /\ kruskalApply(r)
               /\ IF r.done
                  THEN /\ kruskalRunningRef' = FALSE
                       /\ kruskalRunning' = FALSE
                       /\ isMazeComplete' = TRUE
                       /\ rafQueue' = Tail(rafQueue)
                  ELSE /\ UNCHANGED <<kruskalRunningRef, kruskalRunning, isMazeComplete>>
                       /\ rafQueue' = Append(Tail(rafQueue), Head(rafQueue))
               /\ UNCHANGED <<kruskalChunkSize, kruskalChunkSizeRef>>
    /\ UNCHANGED <<rows, cols, source, target, drawingMode, searchVars, primVars>>

\* kruskalInitialization, on the blank grid clearMaze has just made
kruskalInitialization ==
    /\ cells' = kruskalCells
    /\ groupParents' = [id \in RoomIds |-> id]
    /\ groupSizes' = [id \in RoomIds |-> 1]
    /\ wallsList' \in shuffleArray(kruskalWallsFrom(0))
    /\ numGroups' = Cardinality(RoomIds)

\* "Clear All": clearMaze of the Kruskal component
kruskalClearMaze ==
    /\ source' = Null
    /\ target' = Null
    /\ drawingMode' = "source"
    /\ dijkstraRunning' = FALSE
    /\ kruskalRunning' = FALSE
    /\ isMazeComplete' = FALSE
    /\ dijkstraRunningRef' = FALSE
    /\ kruskalRunningRef' = FALSE
    /\ dijkstraQueue' = << >>
    /\ shortestPathAnimating' = FALSE
    /\ kruskalInitialization
    /\ UNCHANGED <<rows, cols, distances, visited, predecessors, dijkstraPaused,
                   dijkstraChunkSize, dijkstraChunkSizeRef, pathFound, pathLength,
                   kruskalChunkSize, kruskalChunkSizeRef, primVars, rafQueue>>

\* values of the refs and state no handler of the component under study uses
NoSearch ==
    /\ distances = << >> /\ visited = << >> /\ predecessors = << >>
    /\ dijkstraQueue = << >>
    /\ dijkstraRunningRef = FALSE /\ dijkstraRunning = FALSE /\ dijkstraPaused = FALSE
    /\ dijkstraChunkSize = DijkstraChunkUnit /\ dijkstraChunkSizeRef = DijkstraChunkUnit
    /\ shortestPathAnimating = FALSE /\ pathFound = FALSE /\ pathLength = 0
NoKruskal ==
    /\ wallsList = << >> /\ groupParents = << >> /\ groupSizes = << >> /\ numGroups = 0
    /\ kruskalRunningRef = FALSE /\ kruskalRunning = FALSE
    /\ kruskalChunkSize = 1 /\ kruskalChunkSizeRef = 1
NoPrim ==
    /\ frontierList = << >> /\ primRunningRef = FALSE /\ primRunning = FALSE
    /\ primChunkSize = PrimChunkUnit /\ primChunkSizeRef = PrimChunkUnit

\* the Kruskal component once mounted: the [rows, cols] effect has run clearMaze
KruskalInitOf(size) ==
    /\ rows = size /\ cols = size
    /\ source = Null /\ target = Null /\ drawingMode = "source"
    /\ isMazeComplete = FALSE
    /\ NoSearch
    /\ cells = kruskalCells
    /\ groupParents = [id \in RoomIds |-> id]
    /\ groupSizes = [id \in RoomIds |-> 1]
    /\ wallsList \in shuffleArray(kruskalWallsFrom(0))
    /\ numGroups = Cardinality(RoomIds)
    /\ kruskalRunningRef = FALSE /\ kruskalRunning = FALSE
    /\ kruskalChunkSize = 1 /\ kruskalChunkSizeRef = 1
    /\ NoPrim
    /\ rafQueue = << >>

KruskalInit == KruskalInitOf(KruskalSize)

KruskalShuffledInit == KruskalInitOf(ShuffledSize)

KruskalNext ==
    \/ KruskalOneStepButton
    \/ kruskalPlay
    \/ kruskalStop
    \/ kruskalStepLoop
    \/ kruskalClearMaze

SpecKruskal == KruskalInit /\ [][KruskalNext]_vars

\* the Kruskal component with "Stop Kruskal" and "Clear All" never pressed;
\* the browser serves every animation frame that was requested
KruskalPlayNext ==
    \/ KruskalOneStepButton
    \/ kruskalPlay
    \/ kruskalStepLoop

\* a kruskalStepLoop waits for the next animation frame; serving it always
\* changes the state (the frame is dropped, or a wall is popped), so this is
\* ENABLED <<kruskalStepLoop>>_vars
kruskalFrameWaits == rafQueue # << >> /\ Head(rafQueue).fn = "kruskalStepLoop"

\* WF_vars(kruskalStepLoop), with the enabling condition written out
kruskalFramesServed == []<>(~kruskalFrameWaits) \/ []<><<kruskalStepLoop>>_vars

SpecKruskalPlay == KruskalInit /\ [][KruskalPlayNext]_vars /\ kruskalFramesServed

(***************************************************************************)
(* Kruskal: findRoot and union called on their own, on the maps            *)
(* kruskalInitialization leaves, with any of the first UnionIds group ids. *)
(***************************************************************************)
UnionArgs == {id \in RoomIds : id < UnionIds}

\* findRoot(id)
findRootCall ==
    /\ \E id \in UnionArgs : groupParents' = findRoot(groupParents, id).parents
    /\ UNCHANGED <<gridVars, searchVars, wallsList, groupSizes, numGroups,
                   kruskalRunningRef, kruskalRunning, kruskalChunkSize,
                   kruskalChunkSizeRef, primVars, rafQueue>>

\* union(id1, id2)
unionCall ==
    /\ \E id1 \in UnionArgs, id2 \in UnionArgs :
          LET u == union(groupParents, groupSizes, id1, id2)
          IN  /\ groupParents' = u.parents
              /\ groupSizes' = u.sizes
              /\ numGroups' = numGroups - u.merged
    /\ UNCHANGED <<gridVars, searchVars, wallsList,
                   kruskalRunningRef, kruskalRunning, kruskalChunkSize,
                   kruskalChunkSizeRef, primVars, rafQueue>>

UnionFindNext ==
    \/ findRootCall
    \/ unionCall

SpecUnionFind == KruskalInit /\ [][UnionFindNext]_vars

(***************************************************************************)
(* Prim component (the variant with isMazeComplete): the frontier step.    *)
(***************************************************************************)
directions == << <<-2, 0>>, <<2, 0>>, <<0, -2>>, <<0, 2>> >>

\* the four cells at distance 2 of p, in the order of directions
twoAway(p) == [k \in 1 .. 4 |-> <<p[1] + directions[k][1], p[2] + directions[k][2]>>]

\* Math.random() of primOneStep is an input of the model: any index of the
\* frontier list on the small grid; on a larger grid the model follows the
\* draws of the first index only
primDraws(n) == IF rows <= PrimSize THEN 1 .. n ELSE {1}

\* the values randOdd(max) can return
randOdd(max) == {IF n < max - 1 THEN n ELSE max - 1 :
                    n \in {2 * k + 1 : k \in 0 .. (max \div 2) - 1}}

\* a forEach that pushes every cell at distance 2 of p that is not a passage,
\* the ones that already wait on the frontier list included
pushFrontierAgain(st, p) ==
    LET cand == SelectSeq(twoAway(p),
                    LAMBDA q : isInBounds(q[1], q[2]) /\ st.cells[q] # "passage")
    IN  [frontier |-> st.frontier \o cand,
         cells |-> [q \in DOMAIN st.cells |->
                       IF \E k \in 1 .. Len(cand) : cand[k] = q
                       THEN "frontier" ELSE st.cells[q]]]

\* directions.forEach: every blocked cell at distance 2 of p becomes "frontier"
\* and is pushed on the frontier list
pushFrontier(st, p) ==
    LET cand == SelectSeq(twoAway(p),
                    LAMBDA q : isInBounds(q[1], q[2]) /\ st.cells[q] = "blocked")
    IN  [frontier |-> st.frontier \o cand,
         cells |-> [q \in DOMAIN st.cells |->
                       IF \E k \in 1 .. Len(cand) : cand[k] = q
                       THEN "frontier" ELSE st.cells[q]]]

\* primInitialization(x, y): the grid and the frontier list it leaves
primInitialization(x, y) ==
    pushFrontier([frontier |-> << >>,
                  cells |-> [createGrid(rows, cols, "blocked") EXCEPT ![<<x, y>>] = "passage"]],
                 <<x, y>>)

\* directions.map(...).filter(...): the passage cells at distance 2 of p
passageNeighbours(st, p) ==
    SelectSeq(twoAway(p), LAMBDA q : isInBounds(q[1], q[2]) /\ st.cells[q] = "passage")

\* a carve that opens the popped cell but leaves the wall in between standing
carveRoomOnly(cs, p, neighbor) == [cs EXCEPT ![p] = "passage"]

\* the cell between p and neighbor, and p itself, become passages
carve(cs, p, neighbor) ==
    LET betweenX == (p[1] + neighbor[1]) \div 2
        betweenY == (p[2] + neighbor[2]) \div 2
    IN  [cs EXCEPT ![<<betweenX, betweenY>>] = "passage", ![p] = "passage"]

\* one iteration of the while loop: the states it can end in, one for every
\* random index and every random passage neighbour
primIteration(st) ==
    UNION {LET p == st.frontier[i]
               popped == [st EXCEPT !.frontier = RemoveAt(st.frontier, i)]
               nbs == passageNeighbours(st, p)
           IN  IF Len(nbs) > 0
               THEN {pushFrontier([popped EXCEPT !.cells = carve(st.cells, p, nbs[j])], p) :
                        j \in primDraws(Len(nbs))}
               ELSE {popped}
           : i \in primDraws(Len(st.frontier))}

\* a while loop whose body never runs
primLoopSkipped(st, i, chunkSize) == {st}

\* while (i++ < primChunkSizeRef.current && frontierList.length > 0)
RECURSIVE primLoop(_, _, _)
primLoop(st, i, chunkSize) ==
    IF i * PrimChunkUnit < chunkSize /\ Len(st.frontier) > 0
    THEN UNION {primLoop(next, i + 1, chunkSize) : next \in primIteration(st)}
    ELSE {st}

\* primOneStep(): the outcomes [frontier, cells] it can have
primOneStep == primLoop([frontier |-> frontierList, cells |-> cells], 0, primChunkSizeRef)

\* the refs an outcome leaves behind, with the state primOneStep sets when
\* the frontier list is empty
primApply(r) ==
    /\ frontierList' = r.frontier
    /\ cells' = r.cells

(***************************************************************************)
(* Prim component: handlers.                                               *)
(***************************************************************************)
\* a primStepLoop handed to requestAnimationFrame keeps the rows and cols of
\* the render that made it (isInBounds reads them)
primClosure == [fn |-> "primStepLoop", rows |-> rows, cols |-> cols]

\* "One Step Prim": setPrimChunkSize(1); primOneStep();  the ref follows the
\* state only with the re-render, after primOneStep has read it
PrimOneStepButton ==
    /\ ~primRunning /\ ~isMazeComplete
    /\ \E r \in primOneStep :
          /\ primApply(r)
          /\ isMazeComplete' = (Len(r.frontier) = 0)
          /\ drawingMode' = IF Len(r.frontier) = 0 THEN "source" ELSE drawingMode
    /\ primChunkSize' = PrimChunkUnit
    /\ primChunkSizeRef' = PrimChunkUnit
    /\ UNCHANGED <<rows, cols, source, target, searchVars, kruskalVars,
                   primRunningRef, primRunning, rafQueue>>

\* "Play Prim" (shown while primRunning is false): primPlay, which runs
\* primStepLoop once and then sets the chunk size
primPlay ==
    /\ ~primRunning /\ ~isMazeComplete
    /\ Len(rafQueue) < MaxPendingFrames
    /\ IF primRunningRef
       THEN UNCHANGED <<cells, isMazeComplete, drawingMode, primVars, rafQueue>>
       ELSE /\ \E r \in primOneStep :
                  /\ primApply(r)
                  /\ primRunningRef' = (Len(r.frontier) # 0)
                  /\ primRunning' = (Len(r.frontier) # 0)
                  /\ isMazeComplete' = (Len(r.frontier) = 0)
                  /\ drawingMode' = IF Len(r.frontier) = 0 THEN "source" ELSE drawingMode
                  /\ rafQueue' = IF Len(r.frontier) = 0 THEN rafQueue
                                 ELSE Append(rafQueue, primClosure)
            /\ primChunkSize' = cols + rows
            /\ primChunkSizeRef' = cols + rows
    /\ UNCHANGED <<rows, cols, source, target, searchVars, kruskalVars>>

\* "Stop Prim" (shown while primRunning is true)
primStop ==
    /\ primRunning /\ ~isMazeComplete
    /\ primRunningRef' = FALSE
    /\ primRunning' = FALSE
    /\ primChunkSize' = PrimChunkUnit
    /\ primChunkSizeRef' = PrimChunkUnit
    /\ UNCHANGED <<gridVars, searchVars, kruskalVars, frontierList, rafQueue>>

\* the animation frame serves a waiting primStepLoop
primStepLoop ==
    /\ rafQueue # << >>
    /\ Head(rafQueue).fn = "primStepLoop"
    /\ IF ~primRunningRef
       THEN /\ rafQueue' = Tail(rafQueue)
            /\ UNCHANGED <<cells, isMazeComplete, drawingMode, primVars>>
       ELSE \E r \in primOneStep :
               /\ primApply(r)
               /\ IF Len(r.frontier) = 0
                  THEN /\ primRunningRef' = FALSE
                       /\ primRunning' = FALSE
                       /\ isMazeComplete' = TRUE
                       /\ drawingMode' = "source"
                       /\ rafQueue' = Tail(rafQueue)
                  ELSE /\ UNCHANGED <<primRunningRef, primRunning, isMazeComplete, drawingMode>>
                       /\ rafQueue' = Append(Tail(rafQueue), Head(rafQueue))
               /\ UNCHANGED <<primChunkSize, primChunkSizeRef>>
    /\ UNCHANGED <<rows, cols, source, target, searchVars, kruskalVars>>

\* "Clear All": clearMaze of the Prim component
primClearMaze ==
    /\ source' = Null
    /\ target' = Null
    /\ drawingMode' = ""
    /\ dijkstraRunning' = FALSE
    /\ primRunning' = FALSE
    /\ dijkstraRunningRef' = FALSE
    /\ primRunningRef' = FALSE
    /\ dijkstraQueue' = << >>
    /\ isMazeComplete' = FALSE
    /\ shortestPathAnimating' = FALSE
    /\ \E x \in randOdd(cols), y \in randOdd(rows) :
          /\ frontierList' = primInitialization(x, y).frontier
          /\ cells' = primInitialization(x, y).cells
    /\ UNCHANGED <<rows, cols, distances, visited, predecessors, dijkstraPaused,
                   dijkstraChunkSize, dijkstraChunkSizeRef, pathFound, pathLength,
                   primChunkSize, primChunkSizeRef, kruskalVars, rafQueue>>

\* the Prim component once mounted: the [rows, cols] effects have made the
\* blocked grid and run primInitialization on a random odd cell
PrimInitOf(size) ==
    /\ rows = size /\ cols = size
    /\ source = Null /\ target = Null /\ drawingMode = ""
    /\ isMazeComplete = FALSE
    /\ NoSearch
    /\ NoKruskal
    /\ \E x \in randOdd(cols), y \in randOdd(rows) :
          /\ frontierList = primInitialization(x, y).frontier
          /\ cells = primInitialization(x, y).cells
    /\ primRunningRef = FALSE /\ primRunning = FALSE
    /\ primChunkSize = PrimChunkUnit /\ primChunkSizeRef = PrimChunkUnit
    /\ rafQueue = << >>

PrimInit == PrimInitOf(PrimSize)

PrimLargeInit == PrimInitOf(PrimLargeSize)

PrimNext ==
    \/ PrimOneStepButton
    \/ primPlay
    \/ primStop
    \/ primStepLoop
    \/ primClearMaze

SpecPrim == PrimInit /\ [][PrimNext]_vars

SpecPrimLarge == PrimLargeInit /\ [][PrimNext]_vars

\* the Prim component with "Stop Prim" and "Clear All" never pressed; the
\* browser serves every animation frame that was requested
PrimPlayNext ==
    \/ PrimOneStepButton
    \/ primPlay
    \/ primStepLoop

SpecPrimPlay == PrimInit /\ [][PrimPlayNext]_vars /\ WF_vars(primStepLoop)

(***************************************************************************)
(* Prim component: the maze size slider.  The slider sets rows and cols;   *)
(* the [rows, cols] effects of the next render replace the grid and the    *)
(* frontier list, while a waiting primStepLoop still belongs to the render *)
(* that requested it.                                                      *)
(***************************************************************************)
\* the smallest value of the slider
MinMazeSize == 5

\* the values the model moves the slider to
MazeSizes == {MinMazeSize, PrimSize}

\* isInBounds(x, y) of the render closure f
inBoundsOf(f, q) == q[1] >= 0 /\ q[2] >= 0 /\ q[1] < f.cols /\ q[2] < f.rows

\* directions.forEach of the render closure f
pushFrontierIn(f, st, p) ==
    LET cand == SelectSeq(twoAway(p),
                    LAMBDA q : inBoundsOf(f, q) /\ st.cells[q] = "blocked")
    IN  [st EXCEPT !.frontier = st.frontier \o cand,
                   !.cells = [q \in DOMAIN st.cells |->
                                 IF \E k \in 1 .. Len(cand) : cand[k] = q
                                 THEN "frontier" ELSE st.cells[q]]]

\* primInitialization(x, y) of the render whose grid is size x size
primInitializationIn(size, x, y) ==
    pushFrontierIn([rows |-> size, cols |-> size],
                   [frontier |-> << >>,
                    cells |-> [createGrid(size, size, "blocked") EXCEPT ![<<x, y>>] = "passage"]],
                   <<x, y>>)

\* one iteration of the while loop run by the render closure f on the grid
\* held now.  The filter reads updatedCells[cand.y][cand.x].status for every
\* candidate inside the closure's bounds: outside the grid held now the row
\* or the cell is undefined and the read throws a TypeError, after the
\* splice and before anything is carved
primIterationIn(f, st) ==
    UNION {LET p == st.frontier[i]
               popped == [st EXCEPT !.frontier = RemoveAt(st.frontier, i)]
               cand == SelectSeq(twoAway(p), LAMBDA q : inBoundsOf(f, q))
               nbs == SelectSeq(cand, LAMBDA q : st.cells[q] = "passage")
           IN  IF \E k \in 1 .. Len(cand) : cand[k] \notin DOMAIN st.cells
               THEN {[popped EXCEPT !.thrown = TRUE]}
               ELSE IF Len(nbs) > 0
                    THEN {pushFrontierIn(f, [popped EXCEPT !.cells = carve(st.cells, p, nbs[j])], p) :
                             j \in primDraws(Len(nbs))}
                    ELSE {popped}
           : i \in primDraws(Len(st.frontier))}

\* while (i++ < primChunkSizeRef.current && frontierList.length > 0), left
\* at once by an exception
RECURSIVE primLoopIn(_, _, _, _)
primLoopIn(f, st, i, chunkSize) ==
    IF ~st.thrown /\ i * PrimChunkUnit < chunkSize /\ Len(st.frontier) > 0
    THEN UNION {primLoopIn(f, next, i + 1, chunkSize) : next \in primIterationIn(f, st)}
    ELSE {st}

\* primOneStep() of the render closure f
primOneStepIn(f) ==
    primLoopIn(f, [frontier |-> frontierList, cells |-> cells, thrown |-> FALSE],
               0, primChunkSizeRef)

\* the animation frame serves a waiting primStepLoop, which runs with the
\* rows and cols of its own render; an exception ends the callback before it
\* requests the next frame
primStepLoopOfRender ==
    /\ rafQueue # << >>
    /\ Head(rafQueue).fn = "primStepLoop"
    /\ IF ~primRunningRef
       THEN /\ rafQueue' = Tail(rafQueue)
            /\ UNCHANGED <<cells, isMazeComplete, drawingMode, primVars>>
       ELSE \E r \in primOneStepIn(Head(rafQueue)) :
               /\ frontierList' = r.frontier
               /\ cells' = r.cells
               /\ IF r.thrown
                  THEN /\ UNCHANGED <<primRunningRef, primRunning, isMazeComplete, drawingMode>>
                       /\ rafQueue' = Tail(rafQueue)
                  ELSE IF Len(r.frontier) = 0
                  THEN /\ primRunningRef' = FALSE
                       /\ primRunning' = FALSE
                       /\ isMazeComplete' = TRUE
                       /\ drawingMode' = "source"
                       /\ rafQueue' = Tail(rafQueue)
                  ELSE /\ UNCHANGED <<primRunningRef, primRunning, isMazeComplete, drawingMode>>
                       /\ rafQueue' = Append(Tail(rafQueue), Head(rafQueue))
               /\ UNCHANGED <<primChunkSize, primChunkSizeRef>>
    /\ UNCHANGED <<rows, cols, source, target, searchVars, kruskalVars>>

\* the slider's onChange with a new value, and the effects of the render
\* that follows: the [rows, cols] effects make the blocked grid and run
\* primInitialization on a random odd cell, the chunk size effects copy the
\* chunk sizes to their refs.  primRunningRef and primRunning are not touched
primResize ==
    /\ \E size \in MazeSizes \ {rows} :
          /\ rows' = size
          /\ cols' = size
          /\ \E x \in randOdd(size), y \in randOdd(size) :
                /\ frontierList' = primInitializationIn(size, x, y).frontier
                /\ cells' = primInitializationIn(size, x, y).cells
    /\ primChunkSize' = PrimChunkUnit
    /\ primChunkSizeRef' = PrimChunkUnit
    /\ dijkstraChunkSize' = DijkstraChunkUnit
    /\ dijkstraChunkSizeRef' = DijkstraChunkUnit
    /\ source' = Null
    /\ target' = Null
    /\ isMazeComplete' = FALSE
    /\ drawingMode' = ""
    /\ UNCHANGED <<distances, visited, predecessors, dijkstraQueue,
                   dijkstraRunningRef, dijkstraRunning, dijkstraPaused,
                   shortestPathAnimating, pathFound, pathLength,
                   primRunningRef, primRunning, kruskalVars, rafQueue>>

PrimResizeNext ==
    \/ PrimOneStepButton
    \/ primPlay
    \/ primStop
    \/ primStepLoopOfRender
    \/ primClearMaze
    \/ primResize

SpecPrimResize == PrimInit /\ [][PrimResizeNext]_vars

(***************************************************************************)
(* Grid drawer (DijkstraGridDrawer): the search.                           *)
(* The search state is the record [cells, visited, distances,              *)
(* predecessors, queue]; a queue item is [p |-> position, dist |-> n].     *)
(***************************************************************************)
drawerDirections == << <<-1, 0>>, <<1, 0>>, <<0, -1>>, <<0, 1>> >>

searchState == [cells |-> cells, visited |-> visited, distances |-> distances,
                predecessors |-> predecessors, queue |-> dijkstraQueue]

\* a sort whose comparator is the wrong way round: largest distance first
RECURSIVE sortDownFrom(_, _)
sortDownFrom(queue, d) ==
    IF d < 0 THEN << >>
    ELSE SelectSeq(queue, LAMBDA e : e.dist = d) \o sortDownFrom(queue, d - 1)

sortByDistDescending(queue) == sortDownFrom(queue, rows * cols)

\* queue.sort((a, b) => a.dist - b.dist): a stable sort by distance
RECURSIVE sortFrom(_, _)
sortFrom(queue, d) ==
    IF \A k \in 1 .. Len(queue) : queue[k].dist < d
    THEN << >>
    ELSE SelectSeq(queue, LAMBDA e : e.dist = d) \o sortFrom(queue, d + 1)

sortByDist(queue) == sortFrom(queue, 0)

\* a relaxation that also pushes the neighbour when the new distance ties
\* with the one it already has
relaxOnTie(st, cur, k) ==
    LET n == <<cur[1] + drawerDirections[k][1], cur[2] + drawerDirections[k][2]>>
        newDist == st.distances[cur] + 1
    IN  IF /\ isInBounds(n[1], n[2])
           /\ ~st.visited[n]
           /\ st.cells[n] \in {"passage", "target"}
           /\ newDist <= st.distances[n]
        THEN [st EXCEPT !.distances[n] = newDist,
                        !.predecessors[n] = cur,
                        !.queue = Append(st.queue, [p |-> n, dist |-> newDist])]
        ELSE st

\* the body of "for (const { dx, dy } of directions)" for direction k
relax(st, cur, k) ==
    LET n == <<cur[1] + drawerDirections[k][1], cur[2] + drawerDirections[k][2]>>
        newDist == st.distances[cur] + 1
    IN  IF /\ isInBounds(n[1], n[2])
           /\ ~st.visited[n]
           /\ st.cells[n] \in {"passage", "target"}
           /\ newDist < st.distances[n]
        THEN [st EXCEPT !.distances[n] = newDist,
                        !.predecessors[n] = cur,
                        !.queue = Append(st.queue, [p |-> n, dist |-> newDist])]
        ELSE st

RECURSIVE explore(_, _, _)
explore(st, cur, k) ==
    IF k > Len(drawerDirections) THEN st ELSE explore(relax(st, cur, k), cur, k + 1)

\* the node shifted off the sorted queue is visited and its neighbours explored
visit(st, cur) ==
    explore([st EXCEPT !.visited[cur] = TRUE,
                       !.cells[cur] = IF st.cells[cur] \in {"source", "target"}
                                      THEN st.cells[cur] ELSE "visited"],
            cur, 1)

\* a loop without "if (visited[targetY][targetX]) break": it goes on to the
\* end of its chunk after the target is visited
RECURSIVE drawerLoopPastTarget(_, _, _, _)
drawerLoopPastTarget(st, count, maxSteps, tgt) ==
    IF count * DijkstraChunkUnit < maxSteps /\ Len(st.queue) > 0
    THEN LET sorted == sortByDist(st.queue)
             current == Head(sorted).p
             shifted == [st EXCEPT !.queue = Tail(sorted)]
         IN  IF st.visited[current]
             THEN drawerLoopPastTarget(shifted, count + 1, maxSteps, tgt)
             ELSE drawerLoopPastTarget(visit(shifted, current), count + 1, maxSteps, tgt)
    ELSE st

\* while (count++ < maxSteps && queue.length > 0)
RECURSIVE drawerLoop(_, _, _, _)
drawerLoop(st, count, maxSteps, tgt) ==
    IF count * DijkstraChunkUnit < maxSteps /\ Len(st.queue) > 0
    THEN LET sorted == sortByDist(st.queue)
             current == Head(sorted).p
             shifted == [st EXCEPT !.queue = Tail(sorted)]
         IN  IF st.visited[current]
             THEN drawerLoop(shifted, count + 1, maxSteps, tgt)
             ELSE LET next == visit(shifted, current)
                  IN  IF next.visited[tgt] THEN next
                      ELSE drawerLoop(next, count + 1, maxSteps, tgt)
    ELSE st

\* the walk of animateShortestPath from current back to src: the path, and
\* whether the walk ended (it throws when it reads the predecessor of a point
\* outside the grid)
RECURSIVE pathWalk(_, _, _, _, _)
pathWalk(current, src, preds, path, fuel) ==
    IF current = Null
    THEN [path |-> path, ok |-> TRUE]
    ELSE IF current = src
    THEN [path |-> Append(path, current), ok |-> TRUE]
    ELSE IF current \notin DOMAIN preds \/ fuel = 0
    THEN [path |-> Append(path, current), ok |-> FALSE]
    ELSE pathWalk(preds[current], src, preds, Append(path, current), fuel - 1)

shortestPath(src, tgt, preds) == pathWalk(tgt, src, preds, << >>, rows * cols + 1)

reportedLengthCountsTarget(path) == Len(path) - 1

\* setPathLength(path.length - 2); // Subtract source and target nodes
reportedLength(path) == Len(path) - 2

\* dijkstraOneStep() of a render whose source and target are src and tgt:
\* the search state it leaves, whether it calls animateShortestPath, and the
\* path walked
drawerDijkstraOneStep(src, tgt) ==
    IF visited[tgt]
    THEN [st |-> searchState, animate |-> TRUE, walk |-> shortestPath(src, tgt, predecessors)]
    ELSE LET maxSteps == IF dijkstraRunningRef THEN dijkstraChunkSizeRef
                         ELSE DijkstraChunkUnit
             st == drawerLoop(searchState, 0, maxSteps, tgt)
         IN  [st |-> st, animate |-> st.visited[tgt],
              walk |-> shortestPath(src, tgt, st.predecessors)]

\* what dijkstraOneStep leaves in the refs
searchApply(st) ==
    /\ cells' = st.cells
    /\ visited' = st.visited
    /\ distances' = st.distances
    /\ predecessors' = st.predecessors
    /\ dijkstraQueue' = st.queue

drawerClosure(fn, src, tgt, path, i) ==
    [fn |-> fn, source |-> src, target |-> tgt, path |-> path, i |-> i]

\* a dijkstraInitialization() that leaves the predecessor of the source unset
drawerDijkstraInitializationNoSelf(src) ==
    [visited |-> [p \in Grid |-> FALSE],
     distances |-> [[p \in Grid |-> Infinity] EXCEPT ![src] = 0],
     predecessors |-> [p \in Grid |-> Null],
     queue |-> <<[p |-> src, dist |-> 0]>>]

\* dijkstraInitialization() with source and target set
drawerDijkstraInitialization(src) ==
    [visited |-> [p \in Grid |-> FALSE],
     distances |-> [[p \in Grid |-> Infinity] EXCEPT ![src] = 0],
     predecessors |-> [[p \in Grid |-> Null] EXCEPT ![src] = src],
     queue |-> <<[p |-> src, dist |-> 0]>>]

\* a clearDijkstraResults() that resets the refs and leaves the visited and
\* shortestPath cells on the grid
drawerClearedRefsOnly(cs, src, tgt) ==
    LET c2 == IF src # Null THEN [cs EXCEPT ![src] = "source"] ELSE cs
        c3 == IF tgt # Null THEN [c2 EXCEPT ![tgt] = "target"] ELSE c2
    IN  [cells |-> c3,
         visited |-> [p \in Grid |-> FALSE],
         distances |-> IF src # Null /\ tgt # Null
                       THEN [[p \in Grid |-> Infinity] EXCEPT ![src] = 0]
                       ELSE [p \in Grid |-> Infinity],
         predecessors |-> [p \in Grid |-> Null],
         queue |-> IF src # Null /\ tgt # Null THEN <<[p |-> src, dist |-> 0]>> ELSE << >>]

\* the refs clearDijkstraResults() leaves, called from a render whose source
\* and target are src and tgt
drawerCleared(cs, src, tgt) ==
    LET c1 == clearResults(cs)
        c2 == IF src # Null THEN [c1 EXCEPT ![src] = "source"] ELSE c1
        c3 == IF tgt # Null THEN [c2 EXCEPT ![tgt] = "target"] ELSE c2
    IN  [cells |-> c3,
         visited |-> [p \in Grid |-> FALSE],
         distances |-> IF src # Null /\ tgt # Null
                       THEN [[p \in Grid |-> Infinity] EXCEPT ![src] = 0]
                       ELSE [p \in Grid |-> Infinity],
         predecessors |-> [p \in Grid |-> Null],
         queue |-> IF src # Null /\ tgt # Null THEN <<[p |-> src, dist |-> 0]>> ELSE << >>]

(***************************************************************************)
(* Grid drawer: handlers.  The pointer paints or places on one cell; the   *)
(* cells the model clicks are PaintCells (walls that can cut the grid in   *)
(* two, close the far corner in, or force a way round), SourceCells and    *)
(* TargetCells.                                                            *)
(***************************************************************************)
PaintCells == {<<1, 0>>, <<1, 1>>, <<1, 2>>, <<2, 1>>} \cap Grid

SourceCells == {<<0, 0>>, <<1, 0>>} \cap Grid

TargetCells == {<<cols - 1, rows - 1>>, <<0, 0>>}

DrawerShapes == {<<DrawerSize, DrawerSize>>, <<WideRows, WideCols>>}

\* the user lets a path animation end before stepping again, and starts a
\* play only when no frame waits
animationPending == \E k \in 1 .. Len(rafQueue) : rafQueue[k].fn = "step"

\* the walls are drawn while no search has visited a cell
searchUntouched == \A p \in Grid : ~visited[p]

\* the mode buttons: onClick={() => setDrawingMode(mode)}
drawerSetDrawingMode ==
    /\ \E mode \in {"blocked", "passage", "source", "target"} :
          mode # drawingMode /\ drawingMode' = mode
    /\ UNCHANGED <<rows, cols, cells, source, target, isMazeComplete, searchVars,
                   kruskalVars, primVars, rafQueue>>

\* handlePointerDown in the modes "blocked" and "passage"
drawerPaint ==
    /\ drawingMode \in {"blocked", "passage"}
    /\ searchUntouched
    /\ \E point \in PaintCells :
          /\ cells[point] # drawingMode
          /\ cells' = [cells EXCEPT ![point] = drawingMode]
    /\ UNCHANGED <<rows, cols, source, target, drawingMode, isMazeComplete, searchVars,
                   kruskalVars, primVars, rafQueue>>

\* handlePointerDown in the modes "blocked" and "passage" once a search has
\* visited a cell: the handler writes the cell and nothing else
drawerEdit ==
    /\ drawingMode \in {"blocked", "passage"}
    /\ ~searchUntouched
    /\ \E point \in PaintCells :
          /\ cells[point] # drawingMode
          /\ cells' = [cells EXCEPT ![point] = drawingMode]
    /\ UNCHANGED <<rows, cols, source, target, drawingMode, isMazeComplete, searchVars,
                   kruskalVars, primVars, rafQueue>>

\* handlePointerDown in the modes "source" and "target": clearDijkstraResults,
\* the old marker removed, the new one set; the [source, target] effect then
\* runs dijkstraInitialization when both are set
drawerPlace ==
    /\ drawingMode \in {"source", "target"}
    /\ \E point \in IF drawingMode = "source" THEN SourceCells ELSE TargetCells :
          LET cleared == drawerCleared(cells, source, target)
              unmarked == [p \in Grid |-> IF cleared.cells[p] = drawingMode
                                         THEN "passage" ELSE cleared.cells[p]]
              newSource == IF drawingMode = "source" THEN point ELSE source
              newTarget == IF drawingMode = "target" THEN point ELSE target
              init == drawerDijkstraInitialization(newSource)
          IN  /\ cells' = [unmarked EXCEPT ![point] = drawingMode]
              /\ source' = newSource
              /\ target' = newTarget
              /\ IF newSource # Null /\ newTarget # Null
                 THEN /\ visited' = init.visited
                      /\ distances' = init.distances
                      /\ predecessors' = init.predecessors
                      /\ dijkstraQueue' = init.queue
                 ELSE /\ visited' = cleared.visited
                      /\ distances' = cleared.distances
                      /\ predecessors' = cleared.predecessors
                      /\ dijkstraQueue' = cleared.queue
    /\ dijkstraRunningRef' = FALSE
    /\ dijkstraRunning' = FALSE
    /\ dijkstraPaused' = FALSE
    /\ shortestPathAnimating' = FALSE
    /\ pathFound' = FALSE
    /\ pathLength' = 0
    /\ UNCHANGED <<rows, cols, drawingMode, isMazeComplete, dijkstraChunkSize,
                   dijkstraChunkSizeRef, kruskalVars, primVars, rafQueue>>

\* animateShortestPath once the walk has ended: the state it sets and the
\* frame it requests, queue being the frames that wait
animateShortestPath(src, tgt, path, queue) ==
    /\ pathFound' = TRUE
    /\ pathLength' = reportedLength(path)
    /\ shortestPathAnimating' = TRUE
    /\ rafQueue' = Append(queue, drawerClosure("step", src, tgt, path, 1))

\* "One Step Dijkstra": onMouseDown={() => dijkstraOneStep()}
DrawerOneStepButton ==
    /\ source # Null /\ target # Null
    /\ ~animationPending
    /\ LET r == drawerDijkstraOneStep(source, target)
       IN  /\ searchApply(r.st)
           /\ IF r.animate /\ r.walk.ok
              THEN animateShortestPath(source, target, r.walk.path, rafQueue)
              ELSE UNCHANGED <<pathFound, pathLength, shortestPathAnimating, rafQueue>>
    /\ UNCHANGED <<rows, cols, source, target, drawingMode, isMazeComplete,
                   dijkstraRunningRef, dijkstraRunning, dijkstraPaused,
                   dijkstraChunkSize, dijkstraChunkSizeRef, kruskalVars, primVars>>

\* dijkstraStepLoop() of a render whose source and target are src and tgt,
\* dijkstraRunningRef being true; queue is the frames that wait
drawerStepLoopBody(src, tgt, queue) ==
    LET r == drawerDijkstraOneStep(src, tgt)
    IN  /\ searchApply(r.st)
        /\ IF r.animate /\ ~r.walk.ok
           THEN \* the walk threw: nothing after it runs
                /\ dijkstraRunningRef' = TRUE
                /\ rafQueue' = queue
                /\ UNCHANGED <<pathFound, pathLength, shortestPathAnimating>>
           ELSE IF r.animate
           THEN /\ animateShortestPath(src, tgt, r.walk.path, queue)
                /\ dijkstraRunningRef' = FALSE
           ELSE /\ dijkstraRunningRef' = TRUE
                /\ rafQueue' = Append(queue, drawerClosure("dijkstraStepLoop", src, tgt, << >>, 0))
                /\ UNCHANGED <<pathFound, pathLength, shortestPathAnimating>>

\* "Play Dijkstra" (shown while dijkstraRunning is false): dijkstraPlay.
\* dijkstraOneStep reads the refs clearDijkstraResults and
\* dijkstraInitialization have just written.
drawerDijkstraPlay ==
    /\ source # Null /\ target # Null
    /\ ~dijkstraRunning
    /\ rafQueue = << >>
    /\ IF dijkstraPaused /\ dijkstraRunningRef
       THEN UNCHANGED <<cells, searchVars, rafQueue>>
       ELSE LET cleared == drawerCleared(cells, source, target)
                init == drawerDijkstraInitialization(source)
                st == IF dijkstraPaused THEN searchState
                      ELSE [cells |-> cleared.cells, visited |-> init.visited,
                            distances |-> init.distances,
                            predecessors |-> init.predecessors, queue |-> init.queue]
                maxSteps == dijkstraChunkSizeRef
                next == IF st.visited[target] THEN st
                        ELSE drawerLoop(st, 0, maxSteps, target)
                walk == shortestPath(source, target, next.predecessors)
            IN  /\ searchApply(next)
                /\ dijkstraPaused' = FALSE
                /\ dijkstraChunkSize' = cols + rows
                /\ dijkstraChunkSizeRef' = cols + rows
                /\ IF next.visited[target] /\ walk.ok
                   THEN /\ animateShortestPath(source, target, walk.path, rafQueue)
                        /\ dijkstraRunningRef' = FALSE
                        /\ dijkstraRunning' = FALSE
                   ELSE /\ dijkstraRunningRef' = TRUE
                        /\ dijkstraRunning' = TRUE
                        /\ rafQueue' =
                              IF next.visited[target] THEN rafQueue
                              ELSE Append(rafQueue,
                                     drawerClosure("dijkstraStepLoop", source, target, << >>, 0))
                        /\ IF dijkstraPaused
                           THEN UNCHANGED <<pathFound, pathLength, shortestPathAnimating>>
                           ELSE /\ pathFound' = FALSE
                                /\ pathLength' = 0
                                /\ shortestPathAnimating' = FALSE
    /\ UNCHANGED <<rows, cols, source, target, drawingMode, isMazeComplete,
                   kruskalVars, primVars>>

\* "Stop Dijkstra" (shown while dijkstraRunning is true)
drawerDijkstraStop ==
    /\ source # Null /\ target # Null
    /\ dijkstraRunning
    /\ dijkstraRunningRef' = FALSE
    /\ dijkstraRunning' = FALSE
    /\ dijkstraPaused' = TRUE
    /\ dijkstraChunkSize' = DijkstraChunkUnit
    /\ dijkstraChunkSizeRef' = DijkstraChunkUnit
    /\ UNCHANGED <<gridVars, distances, visited, predecessors, dijkstraQueue,
                   shortestPathAnimating, pathFound, pathLength,
                   kruskalVars, primVars, rafQueue>>

\* the animation frame serves a waiting dijkstraStepLoop
drawerDijkstraStepLoop ==
    /\ rafQueue # << >>
    /\ Head(rafQueue).fn = "dijkstraStepLoop"
    /\ IF ~dijkstraRunningRef
       THEN /\ rafQueue' = Tail(rafQueue)
            /\ UNCHANGED <<cells, distances, visited, predecessors, dijkstraQueue,
                           dijkstraRunningRef, dijkstraRunning,
                           shortestPathAnimating, pathFound, pathLength>>
       ELSE /\ drawerStepLoopBody(Head(rafQueue).source, Head(rafQueue).target, Tail(rafQueue))
            /\ dijkstraRunning' = IF dijkstraRunningRef' THEN dijkstraRunning ELSE FALSE
    /\ UNCHANGED <<rows, cols, source, target, drawingMode, isMazeComplete,
                   dijkstraPaused, dijkstraChunkSize, dijkstraChunkSizeRef,
                   kruskalVars, primVars>>

\* a step that starts at path[0] and goes on to the last cell of the path
drawerAnimationStepOverEnds ==
    /\ rafQueue # << >>
    /\ Head(rafQueue).fn = "step"
    /\ LET f == Head(rafQueue)
       IN  IF ~shortestPathAnimating
           THEN /\ rafQueue' = Tail(rafQueue)
                /\ UNCHANGED <<cells, shortestPathAnimating>>
           ELSE IF f.i > Len(f.path)
           THEN /\ shortestPathAnimating' = FALSE
                /\ rafQueue' = Tail(rafQueue)
                /\ UNCHANGED cells
           ELSE /\ cells' = [cells EXCEPT ![f.path[f.i]] = "shortestPath"]
                /\ rafQueue' = Append(Tail(rafQueue), [f EXCEPT !.i = f.i + 1])
                /\ UNCHANGED shortestPathAnimating
    /\ UNCHANGED <<rows, cols, source, target, drawingMode, isMazeComplete,
                   distances, visited, predecessors, dijkstraQueue,
                   dijkstraRunningRef, dijkstraRunning, dijkstraPaused,
                   dijkstraChunkSize, dijkstraChunkSizeRef, pathFound, pathLength,
                   kruskalVars, primVars>>

\* the animation frame serves a waiting step of animateShortestPath
drawerAnimationStep ==
    /\ rafQueue # << >>
    /\ Head(rafQueue).fn = "step"
    /\ LET f == Head(rafQueue)
       IN  IF ~shortestPathAnimating
           THEN /\ rafQueue' = Tail(rafQueue)
                /\ UNCHANGED <<cells, shortestPathAnimating>>
           ELSE IF f.i >= Len(f.path) - 1
           THEN /\ shortestPathAnimating' = FALSE
                /\ rafQueue' = Tail(rafQueue)
                /\ UNCHANGED cells
           ELSE \* path[i++], counted from 0
                /\ cells' = [cells EXCEPT ![f.path[f.i + 1]] = "shortestPath"]
                /\ rafQueue' = Append(Tail(rafQueue), [f EXCEPT !.i = f.i + 1])
                /\ UNCHANGED shortestPathAnimating
    /\ UNCHANGED <<rows, cols, source, target, drawingMode, isMazeComplete,
                   distances, visited, predecessors, dijkstraQueue,
                   dijkstraRunningRef, dijkstraRunning, dijkstraPaused,
                   dijkstraChunkSize, dijkstraChunkSizeRef, pathFound, pathLength,
                   kruskalVars, primVars>>

\* what clearMaze of the grid drawer leaves in the refs
drawerBlank ==
    /\ cells = createGrid(rows, cols, "passage")
    /\ distances = [p \in Grid |-> Infinity]
    /\ visited = [p \in Grid |-> FALSE]
    /\ predecessors = [p \in Grid |-> <<-1, -1>>]

\* "Clear All": clearMaze of the grid drawer
drawerClearMaze ==
    /\ source' = Null
    /\ target' = Null
    /\ drawingMode' = "blocked"
    /\ pathFound' = FALSE
    /\ pathLength' = 0
    /\ shortestPathAnimating' = FALSE
    /\ cells' = createGrid(rows, cols, "passage")
    /\ distances' = [p \in Grid |-> Infinity]
    /\ visited' = [p \in Grid |-> FALSE]
    /\ predecessors' = [p \in Grid |-> <<-1, -1>>]
    /\ UNCHANGED <<rows, cols, isMazeComplete, dijkstraQueue, dijkstraRunningRef,
                   dijkstraRunning, dijkstraPaused, dijkstraChunkSize,
                   dijkstraChunkSizeRef, kruskalVars, primVars, rafQueue>>

\* "Clear Dijkstra": clearDijkstraResults of the grid drawer
drawerClearDijkstraResults ==
    /\ source # Null /\ target # Null
    /\ LET cleared == drawerCleared(cells, source, target)
       IN  /\ cells' = cleared.cells
           /\ visited' = cleared.visited
           /\ distances' = cleared.distances
           /\ predecessors' = cleared.predecessors
           /\ dijkstraQueue' = cleared.queue
    /\ dijkstraRunningRef' = FALSE
    /\ dijkstraRunning' = FALSE
    /\ dijkstraPaused' = FALSE
    /\ shortestPathAnimating' = FALSE
    /\ pathFound' = FALSE
    /\ pathLength' = 0
    /\ UNCHANGED <<rows, cols, source, target, drawingMode, isMazeComplete,
                   dijkstraChunkSize, dijkstraChunkSizeRef, kruskalVars, primVars, rafQueue>>

\* the grid drawer once mounted: the setup effect has made the passage grid
\* and run clearMaze
DrawerInit ==
    /\ \E shape \in DrawerShapes : rows = shape[1] /\ cols = shape[2]
    /\ source = Null /\ target = Null /\ drawingMode = "blocked"
    /\ isMazeComplete = FALSE
    /\ drawerBlank
    /\ dijkstraQueue = << >>
    /\ dijkstraRunningRef = FALSE /\ dijkstraRunning = FALSE /\ dijkstraPaused = FALSE
    /\ dijkstraChunkSize = DijkstraChunkUnit /\ dijkstraChunkSizeRef = DijkstraChunkUnit
    /\ shortestPathAnimating = FALSE /\ pathFound = FALSE /\ pathLength = 0
    /\ NoKruskal
    /\ NoPrim
    /\ rafQueue = << >>

DrawerNext ==
    \/ drawerSetDrawingMode
    \/ drawerPaint
    \/ drawerPlace
    \/ DrawerOneStepButton
    \/ drawerDijkstraPlay
    \/ drawerDijkstraStop
    \/ drawerDijkstraStepLoop
    \/ drawerAnimationStep
    \/ drawerClearMaze
    \/ drawerClearDijkstraResults

SpecDrawer == DrawerInit /\ [][DrawerNext]_vars

\* the grid drawer on the one-row grid, the maze edited at any time
DrawerEditInit == DrawerInit /\ rows = WideRows

DrawerEditNext == DrawerNext \/ drawerEdit

SpecDrawerEdit == DrawerEditInit /\ [][DrawerEditNext]_vars

(***************************************************************************)
(* Kruskal component: the search on the finished maze.  Chunk sizes are    *)
(* kept in sixteenths, as in the grid drawer.                              *)
(***************************************************************************)
\* kruskalOneStep(true) pressed up to n times from loop state st, whose merged
\* field counts the unions made since numGroups was ng: the loop state left
RECURSIVE kruskalPresses(_, _, _)
kruskalPresses(st, ng, n) ==
    IF n = 0 \/ Len(st.walls) = 0 \/ ng - st.merged <= 1 THEN st
    ELSE CHOOSE end \in {kruskalPresses([next EXCEPT !.merged = st.merged + next.merged],
                                        ng, n - 1) :
                            next \in kruskalLoop([st EXCEPT !.steps = 0, !.merged = 0], 1)} : TRUE

\* the outcome of kruskalOneStep(true) pressed again and again, from loop
\* state st with numGroups = ng, until it reports the maze complete (taken
\* sixteen presses at a time)
RECURSIVE kruskalManualRun(_, _)
kruskalManualRun(st, ng) ==
    IF Len(st.walls) = 0 \/ ng - st.merged <= 1 THEN st
    ELSE CHOOSE end \in {kruskalManualRun(next, ng) : next \in {kruskalPresses(st, ng, 16)}} : TRUE

\* the cells the model clicks in the modes "source" and "target"
mazeSourceCells == IF rows = ShuffledSize THEN {} ELSE {<<0, 0>>}

\* (a room next to the source's and the far corner, or two rooms near the
\* source on the large grid; on the grid of side ShuffledSize the model places
\* no endpoints)
mazeTargetCells ==
    IF rows = ShuffledSize THEN {}
    ELSE IF rows = KruskalSize THEN {<<2, 0>>, <<cols - 1, rows - 1>>}
    ELSE {<<2, 0>>, <<2, 2>>}

\* dijkstraInitialization() of a render whose source and target are src and
\* tgt, on the search state st
kruskalDijkstraInitialization(st, src, tgt) ==
    LET unvisited == [st EXCEPT !.visited = [p \in DOMAIN st.visited |-> FALSE]]
    IN  IF src = Null \/ tgt = Null THEN unvisited
        ELSE [unvisited EXCEPT
                 !.visited = [p \in Grid |-> FALSE],
                 !.distances = [[p \in Grid |-> Infinity] EXCEPT ![src] = 0],
                 !.predecessors = [[p \in Grid |-> Null] EXCEPT ![src] = src],
                 !.queue = <<[p |-> src, dist |-> 0]>>]

\* the refs clearDijkstraResults() leaves, called from a render whose source
\* and target are src and tgt
kruskalCleared(cs, src, tgt) ==
    LET c1 == clearResults(cs)
        c2 == IF src # Null THEN [c1 EXCEPT ![src] = "source"] ELSE c1
        c3 == IF tgt # Null THEN [c2 EXCEPT ![tgt] = "target"] ELSE c2
    IN  [cells |-> c3,
         visited |-> [p \in Grid |-> FALSE],
         distances |-> [p \in Grid |-> Infinity],
         predecessors |-> [p \in Grid |-> Null],
         queue |-> << >>]

\* dijkstraOneStep(forceOneStep) of a render whose source and target are src
\* and tgt, on the search state st with the chunk size chunkRef in the ref:
\* the search state it leaves and whether it calls animateShortestPath
kruskalDijkstraOneStep(st, forceOneStep, chunkRef, src, tgt) ==
    LET st0 == IF Len(st.queue) = 0 THEN kruskalDijkstraInitialization(st, src, tgt) ELSE st
    IN  IF st0.visited[tgt]
        THEN [st |-> st0, animate |-> TRUE]
        ELSE LET chunkSize == IF forceOneStep THEN DijkstraChunkUnit ELSE chunkRef
                 next == drawerLoop(st0, 0, chunkSize, tgt)
             IN  [st |-> next, animate |-> next.visited[tgt]]

\* the frame animateShortestPath(source, target, predecessors) requests:
\* step with its path and let i = path.length - 2.  `cancelled` is not in
\* the code: the model sets it on the frames that wait when one of the
\* clearing handlers sets shortestPathAnimatingRef to false.
kruskalRevealFrame(src, tgt, preds) ==
    LET path == shortestPath(src, tgt, preds).path
    IN  [fn |-> "step", path |-> path, i |-> Len(path) - 2, cancelled |-> FALSE]

kruskalSearchFrame(src, tgt) == [fn |-> "dijkstraStepLoop", source |-> src, target |-> tgt]

\* the frames that wait, those of a path reveal marked as cancelled
cancelReveals(queue) ==
    [k \in 1 .. Len(queue) |->
        IF queue[k].fn = "step" THEN [queue[k] EXCEPT !.cancelled = TRUE] ELSE queue[k]]

\* floor((cols + rows) / 16), in sixteenths
kruskalPlayChunk == ((cols + rows) \div DijkstraChunkUnit) * DijkstraChunkUnit

(***************************************************************************)
(* Kruskal component: handlers of the search.                              *)
(***************************************************************************)
\* the mode buttons (disabled until the maze is complete)
kruskalSetDrawingMode ==
    /\ isMazeComplete
    /\ \E mode \in {"source", "target"} : mode # drawingMode /\ drawingMode' = mode
    /\ UNCHANGED <<rows, cols, cells, source, target, isMazeComplete, searchVars,
                   kruskalVars, primVars, rafQueue>>

\* handleMouseClick on a passage cell: clearDijkstraResults, the old marker
\* removed, the new one set; the [source, target] effect then runs
\* dijkstraInitialization when both are set
kruskalHandleMouseClick ==
    /\ isMazeComplete
    /\ drawingMode \in {"source", "target"}
    /\ \E point \in IF drawingMode = "source" THEN mazeSourceCells ELSE mazeTargetCells :
          /\ cells[point] = "passage"
          /\ LET cleared == kruskalCleared(cells, source, target)
                 old == IF drawingMode = "source" THEN source ELSE target
                 unmarked == IF old # Null THEN [cleared.cells EXCEPT ![old] = "passage"]
                             ELSE cleared.cells
                 newSource == IF drawingMode = "source" THEN point ELSE source
                 newTarget == IF drawingMode = "target" THEN point ELSE target
                 init == kruskalDijkstraInitialization(
                            [cleared EXCEPT !.cells = unmarked], newSource, newTarget)
             IN  /\ cells' = [unmarked EXCEPT ![point] = drawingMode]
                 /\ source' = newSource
                 /\ target' = newTarget
                 /\ visited' = init.visited
                 /\ distances' = init.distances
                 /\ predecessors' = init.predecessors
                 /\ dijkstraQueue' = init.queue
    /\ drawingMode' = IF drawingMode = "source" THEN "target" ELSE "source"
    /\ dijkstraRunningRef' = FALSE
    /\ dijkstraRunning' = FALSE
    /\ dijkstraPaused' = FALSE
    /\ shortestPathAnimating' = FALSE
    /\ rafQueue' = cancelReveals(rafQueue)
    /\ UNCHANGED <<rows, cols, isMazeComplete, dijkstraChunkSize, dijkstraChunkSizeRef,
                   pathFound, pathLength, kruskalVars, primVars>>

\* "One Step Dijkstra": onMouseDown={() => dijkstraOneStep(true)}
KruskalDijkstraOneStepButton ==
    /\ source # Null /\ target # Null
    /\ Len(rafQueue) < MaxPendingFrames
    /\ LET r == kruskalDijkstraOneStep(searchState, TRUE, dijkstraChunkSizeRef, source, target)
       IN  /\ searchApply(r.st)
           /\ IF r.animate
              THEN /\ shortestPathAnimating' = TRUE
                   /\ rafQueue' = Append(rafQueue,
                                     kruskalRevealFrame(source, target, r.st.predecessors))
              ELSE UNCHANGED <<shortestPathAnimating, rafQueue>>
    /\ UNCHANGED <<rows, cols, source, target, drawingMode, isMazeComplete,
                   dijkstraRunningRef, dijkstraRunning, dijkstraPaused,
                   dijkstraChunkSize, dijkstraChunkSizeRef, pathFound, pathLength,
                   kruskalVars, primVars>>

\* "Play Dijkstra" (shown while dijkstraRunning is false): dijkstraPlay, which
\* runs dijkstraStepLoop once; the chunk size it sets reaches the ref with
\* the re-render
kruskalDijkstraPlay ==
    /\ source # Null /\ target # Null
    /\ ~dijkstraRunning
    /\ Len(rafQueue) < MaxPendingFrames
    /\ IF dijkstraPaused /\ dijkstraRunningRef
       THEN UNCHANGED <<cells, searchVars, rafQueue>>
       ELSE LET cleared == kruskalCleared(cells, source, target)
                st == IF dijkstraPaused THEN searchState
                      ELSE kruskalDijkstraInitialization(cleared, source, target)
                waiting == IF dijkstraPaused THEN rafQueue ELSE cancelReveals(rafQueue)
                r == kruskalDijkstraOneStep(st, FALSE, dijkstraChunkSizeRef, source, target)
                found == r.st.visited[target]
            IN  /\ searchApply(r.st)
                /\ dijkstraPaused' = FALSE
                /\ dijkstraChunkSize' = kruskalPlayChunk
                /\ dijkstraChunkSizeRef' = kruskalPlayChunk
                /\ dijkstraRunningRef' = ~found
                /\ dijkstraRunning' = ~found
                /\ shortestPathAnimating' =
                      IF r.animate THEN TRUE
                      ELSE IF dijkstraPaused THEN shortestPathAnimating ELSE FALSE
                /\ rafQueue' =
                      IF r.animate
                      THEN Append(waiting, kruskalRevealFrame(source, target, r.st.predecessors))
                      ELSE Append(waiting, kruskalSearchFrame(source, target))
                /\ UNCHANGED <<pathFound, pathLength>>
    /\ UNCHANGED <<rows, cols, source, target, drawingMode, isMazeComplete,
                   kruskalVars, primVars>>

\* "Stop Dijkstra" (shown while dijkstraRunning is true)
kruskalDijkstraStop ==
    /\ source # Null /\ target # Null
    /\ dijkstraRunning
    /\ dijkstraRunningRef' = FALSE
    /\ dijkstraRunning' = FALSE
    /\ dijkstraPaused' = TRUE
    /\ dijkstraChunkSize' = DijkstraChunkUnit
    /\ dijkstraChunkSizeRef' = DijkstraChunkUnit
    /\ UNCHANGED <<gridVars, distances, visited, predecessors, dijkstraQueue,
                   shortestPathAnimating, pathFound, pathLength,
                   kruskalVars, primVars, rafQueue>>

\* the animation frame serves a waiting dijkstraStepLoop, whose closure holds
\* the source and target of the render that requested it
kruskalDijkstraStepLoop ==
    /\ rafQueue # << >>
    /\ Head(rafQueue).fn = "dijkstraStepLoop"
    /\ IF ~dijkstraRunningRef
       THEN /\ rafQueue' = Tail(rafQueue)
            /\ UNCHANGED <<cells, distances, visited, predecessors, dijkstraQueue,
                           dijkstraRunningRef, dijkstraRunning, shortestPathAnimating>>
       ELSE LET f == Head(rafQueue)
                r == kruskalDijkstraOneStep(searchState, FALSE, dijkstraChunkSizeRef,
                                            f.source, f.target)
                found == r.st.visited[f.target]
            IN  /\ searchApply(r.st)
                /\ dijkstraRunningRef' = ~found
                /\ dijkstraRunning' = IF found THEN FALSE ELSE dijkstraRunning
                /\ shortestPathAnimating' = IF r.animate THEN TRUE ELSE shortestPathAnimating
                /\ rafQueue' =
                      IF r.animate
                      THEN Append(Tail(rafQueue),
                                  kruskalRevealFrame(f.source, f.target, r.st.predecessors))
                      ELSE Append(Tail(rafQueue), f)
    /\ UNCHANGED <<rows, cols, source, target, drawingMode, isMazeComplete,
                   dijkstraPaused, dijkstraChunkSize, dijkstraChunkSizeRef,
                   pathFound, pathLength, kruskalVars, primVars>>

\* the animation frame serves a waiting step of animateShortestPath
kruskalAnimationStep ==
    /\ rafQueue # << >>
    /\ Head(rafQueue).fn = "step"
    /\ LET f == Head(rafQueue)
       IN  IF ~shortestPathAnimating
           THEN /\ rafQueue' = Tail(rafQueue)
                /\ UNCHANGED <<cells, shortestPathAnimating>>
           ELSE IF f.i < 1
           THEN /\ shortestPathAnimating' = FALSE
                /\ rafQueue' = Tail(rafQueue)
                /\ UNCHANGED cells
           ELSE \* path[i--], counted from 0
                /\ cells' = [cells EXCEPT ![f.path[f.i + 1]] = "shortestPath"]
                /\ rafQueue' = Append(Tail(rafQueue), [f EXCEPT !.i = f.i - 1])
                /\ UNCHANGED shortestPathAnimating
    /\ UNCHANGED <<rows, cols, source, target, drawingMode, isMazeComplete,
                   distances, visited, predecessors, dijkstraQueue,
                   dijkstraRunningRef, dijkstraRunning, dijkstraPaused,
                   dijkstraChunkSize, dijkstraChunkSizeRef, pathFound, pathLength,
                   kruskalVars, primVars>>

\* "Clear Dijkstra": clearDijkstraResults of the Kruskal component
kruskalClearDijkstraResults ==
    /\ source # Null /\ target # Null
    /\ LET cleared == kruskalCleared(cells, source, target)
       IN  /\ cells' = cleared.cells
           /\ visited' = cleared.visited
           /\ distances' = cleared.distances
           /\ predecessors' = cleared.predecessors
           /\ dijkstraQueue' = cleared.queue
    /\ dijkstraRunningRef' = FALSE
    /\ dijkstraRunning' = FALSE
    /\ dijkstraPaused' = FALSE
    /\ shortestPathAnimating' = FALSE
    /\ rafQueue' = cancelReveals(rafQueue)
    /\ UNCHANGED <<rows, cols, source, target, drawingMode, isMazeComplete,
                   dijkstraChunkSize, dijkstraChunkSizeRef, pathFound, pathLength,
                   kruskalVars, primVars>>

\* the Kruskal component with a finished maze: mounted, then "One Step
\* Kruskal" pressed until the maze is reported complete
MazeInitOf(size) ==
    /\ rows = size /\ cols = size
    /\ source = Null /\ target = Null /\ drawingMode = "source"
    /\ isMazeComplete = TRUE
    /\ NoSearch
    /\ \E walls \in shuffleArray(kruskalWallsFrom(0)) :
          LET done == kruskalManualRun(
                         [walls |-> walls, parents |-> [id \in RoomIds |-> id],
                          sizes |-> [id \in RoomIds |-> 1], cells |-> kruskalCells,
                          steps |-> 0, merged |-> 0],
                         Cardinality(RoomIds))
          IN  /\ cells = done.cells
              /\ wallsList = done.walls
              /\ groupParents = done.parents
              /\ groupSizes = done.sizes
    /\ numGroups = 1
    /\ kruskalRunningRef = FALSE /\ kruskalRunning = FALSE
    /\ kruskalChunkSize = 1 /\ kruskalChunkSizeRef = 1
    /\ NoPrim
    /\ rafQueue = << >>

MazeSearchInit == MazeInitOf(KruskalSize)

MazeSearchNext ==
    \/ kruskalSetDrawingMode
    \/ kruskalHandleMouseClick
    \/ KruskalDijkstraOneStepButton
    \/ kruskalDijkstraPlay
    \/ kruskalDijkstraStop
    \/ kruskalDijkstraStepLoop
    \/ kruskalAnimationStep
    \/ kruskalClearDijkstraResults

SpecMazeSearch == MazeSearchInit /\ [][MazeSearchNext]_vars

\* generation on the grid whose wall list is shuffled when built, and the
\* search on a finished maze of the larger grid
ChunkedInit == KruskalShuffledInit \/ MazeInitOf(ChunkedSize)

ChunkedNext ==
    \/ KruskalOneStepButton
    \/ kruskalPlay
    \/ kruskalStop
    \/ kruskalStepLoop
    \/ MazeSearchNext

SpecChunked == ChunkedInit /\ [][ChunkedNext]_vars

(***************************************************************************)
(* Prim component, second variant (no isMazeComplete state): generation,   *)
(* placing the endpoints and the search.                                   *)
(***************************************************************************)
\* the cells the model clicks in the modes "source" and "target"
secondSourceCells == {<<1, 1>>, <<3, 3>>} \cap Grid

secondTargetCells == {<<3, 1>>, <<1, 3>>} \cap Grid

\* the refs clearDijkstraResults() leaves: the statements are those of the
\* Kruskal component
secondCleared(cs, src, tgt) == kruskalCleared(cs, src, tgt)

\* dijkstraInitialization(): the statements are those of the Kruskal component
secondDijkstraInitialization(st, src, tgt) == kruskalDijkstraInitialization(st, src, tgt)

\* dijkstraOneStep() of a render whose source and target are src and tgt
secondDijkstraOneStep(st, src, tgt) ==
    IF st.visited[tgt]
    THEN [st |-> st, animate |-> TRUE]
    ELSE LET next == drawerLoop(st, 0, dijkstraChunkSizeRef, tgt)
         IN  [st |-> next, animate |-> next.visited[tgt]]

\* "One Step Prim": onMouseDown={() => primOneStep()}
SecondPrimOneStepButton ==
    /\ \E r \in primOneStep : primApply(r)
    /\ UNCHANGED <<rows, cols, source, target, drawingMode, isMazeComplete, searchVars,
                   kruskalVars, primRunningRef, primRunning, primChunkSize,
                   primChunkSizeRef, rafQueue>>

\* the mode buttons: onClick={() => setDrawingMode(mode)}
secondSetDrawingMode ==
    /\ \E mode \in {"source", "target"} : mode # drawingMode /\ drawingMode' = mode
    /\ UNCHANGED <<rows, cols, cells, source, target, isMazeComplete, searchVars,
                   kruskalVars, primVars, rafQueue>>

\* handleMouseClick on a passage cell: clearDijkstraResults, the cells of
\* the old marker's status made passages, the new marker set; the
\* [source, target] effect then runs dijkstraInitialization when both are set
secondHandleMouseClick ==
    /\ drawingMode \in {"source", "target"}
    /\ \E point \in IF drawingMode = "source" THEN secondSourceCells ELSE secondTargetCells :
          /\ cells[point] = "passage"
          /\ LET cleared == secondCleared(cells, source, target)
                 unmarked == [p \in Grid |-> IF cleared.cells[p] = drawingMode
                                            THEN "passage" ELSE cleared.cells[p]]
                 newSource == IF drawingMode = "source" THEN point ELSE source
                 newTarget == IF drawingMode = "target" THEN point ELSE target
                 init == secondDijkstraInitialization(
                            [cleared EXCEPT !.cells = unmarked], newSource, newTarget)
             IN  /\ cells' = [unmarked EXCEPT ![point] = drawingMode]
                 /\ source' = newSource
                 /\ target' = newTarget
                 /\ visited' = init.visited
                 /\ distances' = init.distances
                 /\ predecessors' = init.predecessors
                 /\ dijkstraQueue' = init.queue
    /\ drawingMode' = IF drawingMode = "source" THEN "target" ELSE "source"
    /\ dijkstraRunningRef' = FALSE
    /\ dijkstraRunning' = FALSE
    /\ dijkstraPaused' = FALSE
    /\ UNCHANGED <<rows, cols, isMazeComplete, dijkstraChunkSize, dijkstraChunkSizeRef,
                   shortestPathAnimating, pathFound, pathLength, kruskalVars, primVars,
                   rafQueue>>

\* "One Step Dijkstra": onMouseDown={() => dijkstraOneStep()}; once the
\* target is visited animateShortestPath walks the path and requests step
SecondDijkstraOneStepButton ==
    /\ source # Null /\ target # Null
    /\ Len(rafQueue) < MaxPendingFrames
    /\ LET r == secondDijkstraOneStep(searchState, source, target)
           walk == shortestPath(source, target, r.st.predecessors)
       IN  /\ searchApply(r.st)
           /\ rafQueue' = IF r.animate /\ walk.ok
                          THEN Append(rafQueue, drawerClosure("step", source, target, walk.path, 1))
                          ELSE rafQueue
    /\ UNCHANGED <<rows, cols, source, target, drawingMode, isMazeComplete,
                   dijkstraRunningRef, dijkstraRunning, dijkstraPaused,
                   dijkstraChunkSize, dijkstraChunkSizeRef, shortestPathAnimating,
                   pathFound, pathLength, kruskalVars, primVars>>

\* the animation frame serves a waiting step of animateShortestPath, which
\* has no flag to test
secondAnimationStep ==
    /\ rafQueue # << >>
    /\ Head(rafQueue).fn = "step"
    /\ LET f == Head(rafQueue)
       IN  IF f.i >= Len(f.path) - 1
           THEN /\ rafQueue' = Tail(rafQueue)
                /\ UNCHANGED cells
           ELSE \* path[i++], counted from 0
                /\ cells' = [cells EXCEPT ![f.path[f.i + 1]] = "shortestPath"]
                /\ rafQueue' = Append(Tail(rafQueue), [f EXCEPT !.i = f.i + 1])
    /\ UNCHANGED <<rows, cols, source, target, drawingMode, isMazeComplete, searchVars,
                   kruskalVars, primVars>>

\* the second variant once mounted; "Clear All" is never pressed
SecondInit == PrimInitOf(SecondSize)

SecondNext ==
    \/ SecondPrimOneStepButton
    \/ secondSetDrawingMode
    \/ secondHandleMouseClick
    \/ SecondDijkstraOneStepButton
    \/ secondAnimationStep

SpecSecond == SecondInit /\ [][SecondNext]_vars

(***************************************************************************)
(* Reading the grid.                                                       *)
(***************************************************************************)
PassageCells == {p \in Grid : cells[p] = "passage"}

Neighbours(p) == {<<p[1] - 1, p[2]>>, <<p[1] + 1, p[2]>>, <<p[1], p[2] - 1>>, <<p[1], p[2] + 1>>}

\* the cells of `open` reachable from the cells `seen` by 4-directional moves
\* in `open`; `edge` are the cells of `seen` whose neighbours are still to be added
RECURSIVE ReachFrom(_, _, _)
ReachFrom(edge, seen, open) ==
    LET new == (UNION {Neighbours(p) : p \in edge} \cap open) \ seen
    IN  IF new = {} THEN seen ELSE ReachFrom(new, seen \cup new, open)

Reach(S, open) == ReachFrom(S, S, open)

Connected(open) == open = {} \/ Reach({CHOOSE p \in open : TRUE}, open) = open

\* connected components of `open`
RECURSIVE Components(_)
Components(open) ==
    IF open = {} THEN {}
    ELSE LET c == Reach({CHOOSE p \in open : TRUE}, open)
         IN  {c} \cup Components(open \ c)

KruskalRooms == {p \in Grid : isRoom(p[1], p[2])}
\* the cells between two rooms of the grid
KruskalWalls == {p \in Grid : (p[1] + p[2]) % 2 = 1
                              /\ isInBounds(flankA(p)[1], flankA(p)[2])
                              /\ isInBounds(flankB(p)[1], flankB(p)[2])}
CarvedWalls == {w \in KruskalWalls : cells[w] = "passage"}

\* the root of id's tree, read without compressing
RootOf(parents, id) == findRoot(parents, id).root
RoomRoot(parents, p) == RootOf(parents, groupIdOf(p[1], p[2]))

CarvedOnlyOnMerge ==
    \A w \in KruskalWalls :
        (cells[w] = "blocked" /\ cells'[w] = "passage") =>
            /\ RoomRoot(groupParents, flankA(w)) # RoomRoot(groupParents, flankB(w))
            /\ RoomRoot(groupParents', flankA(w)) = RoomRoot(groupParents', flankB(w))

KruskalAcyclic ==
    Cardinality(CarvedWalls) = Cardinality(KruskalRooms) - Cardinality(Components(PassageCells))

C4_UnionFindMatchesCarving ==
    LET rooms == KruskalRooms
        root == [p \in rooms |-> RoomRoot(groupParents, p)]
        comps == Components(PassageCells)
        comp == [p \in rooms |-> CHOOSE c \in comps : p \in c]
    IN  \A a, b \in rooms : (root[a] = root[b]) <=> (comp[a] = comp[b])

\* several groups left, one of them holding a room two hops from its root
C4_Witness ==
    /\ numGroups > 1
    /\ \E a, b \in KruskalRooms :
          a # b /\ RoomRoot(groupParents, a) = RoomRoot(groupParents, b)
    /\ \E id \in DOMAIN groupParents :
          groupParents[id] # id /\ groupParents[groupParents[id]] # groupParents[id]

(***************************************************************************)
(* C8.  Every call of the Kruskal step with work budget chunkSize removes  *)
(* at most chunkSize walls from the wall list, and a manual single step    *)
(* removes exactly one wall when the list is non-empty and generation is   *)
(* not complete.                                                           *)
(***************************************************************************)
wallsPopped == Len(wallsList) - Len(wallsList')

C8_KruskalPopsWithinBudget ==
    [][/\ KruskalOneStepButton /\ Len(wallsList) > 0 /\ numGroups > 1 => wallsPopped = 1
       /\ kruskalStepLoop => wallsPopped <= kruskalChunkSizeRef]_vars

(***************************************************************************)
(* C2.  When Prim generation is complete (the frontier list is empty),     *)
(* the passage cells form a spanning tree of the rooms: every room is a    *)
(* passage, every passage cell is reachable from every other through       *)
(* passage cells, and the carved midpoint cells number one less than the   *)
(* passage rooms.                                                          *)
(***************************************************************************)
PrimRooms == {p \in Grid : p[1] % 2 = 1 /\ p[2] % 2 = 1}

PrimMidpoints == PassageCells \ PrimRooms

Range(seq) == {seq[k] : k \in 1 .. Len(seq)}

frontierPopped == Cardinality(Range(frontierList) \ Range(frontierList'))

C9_PrimOneStepPopsOne == [][PrimOneStepButton => frontierPopped <= 1]_vars

(***************************************************************************)
(* Reading the grid drawer: the true shortest distance on the drawn grid.  *)
(***************************************************************************)
\* a cell a path may pass: anything but a wall or another marker
passable(q) == q \in Grid /\ cells[q] \in {"passage", "target", "visited", "shortestPath"}

\* breadth-first layers from edge: the distance at which tgt is met
RECURSIVE bfsLayers(_, _, _, _)
bfsLayers(edge, seen, tgt, d) ==
    IF tgt \in edge THEN d
    ELSE IF edge = {} THEN Infinity
    ELSE LET next == {q \in UNION {Neighbours(p) : p \in edge} : q \notin seen /\ passable(q)}
         IN  bfsLayers(next, seen \cup next, tgt, d + 1)

bfsDistance(src, tgt) == bfsLayers({src}, {src}, tgt, 0)

searchSet == source # Null /\ target # Null

visitedCells == {p \in DOMAIN visited : visited[p]}

Scenario3x3 ==
    /\ rows = 3 /\ cols = 3
    /\ searchSet
    /\ source = <<0, 0>> /\ target = <<2, 2>>
    /\ \A p \in Grid : cells[p] # "blocked"

\* C6 as claimed: on the 3x3 all-passage grid with source (0,0) and target
\* (2,2) the reported path length is 4, and in general the reported path
\* length is the number of unit steps from source to target.
C6_ReportsUnitSteps ==
    (searchSet /\ pathFound) =>
        /\ pathLength = bfsDistance(source, target)
        /\ Scenario3x3 => pathLength = 4

\* C6 as amended: on the 3x3 all-passage grid with source (0,0) and target
\* (2,2) the reported path length is 3, the number of cells strictly between
\* source and target, and in general the reported path length is the number
\* of unit steps from source to target minus one.
C6_ReportsCellsBetween ==
    (searchSet /\ pathFound) =>
        /\ pathLength = bfsDistance(source, target) - 1
        /\ Scenario3x3 => pathLength = 3

C6_Witness == Scenario3x3 /\ pathFound /\ visited[target] /\ pathLength = 3

(***************************************************************************)
(* C7.  If the queue empties before the target is visited, continuous play *)
(* stops: the running flag becomes false and no further step is scheduled. *)
(* Stated on the frame that finds the search exhausted while play runs:    *)
(* serving it must change the state (stop the play).                       *)
(***************************************************************************)
searchExhausted ==
    /\ searchSet
    /\ dijkstraQueue = << >>
    /\ visited[source]
    /\ ~visited[target]

C7_PlayStopsWhenQueueEmpties ==
    (searchExhausted /\ dijkstraRunningRef) => ENABLED <<drawerDijkstraStepLoop>>_vars

(***************************************************************************)
(* C10.  A manual "One Step Dijkstra" pops at most one queue entry (every  *)
(* entry popped is a cell newly visited), whatever chunk size is           *)
(* configured, also when pressed while continuous play is running.         *)
(***************************************************************************)
C10_DijkstraOneStepPopsOne ==
    [][DrawerOneStepButton =>
          Cardinality(visitedCells') - Cardinality(visitedCells) <= 1]_vars

(***************************************************************************)
(* C11.  Running to completion with chunk size 1 gives the same final      *)
(* cells and the same final distances, visited flags and predecessors as   *)
(* running with a larger chunk size: for Kruskal generation on the same    *)
(* shuffled wall list, and for the search on the same maze, source and     *)
(* target.  Stated on every step of either algorithm, whatever its chunk   *)
(* size: the step ends in a state that pressing "One Step" some number of  *)
(* times reaches as well (for Kruskal: with the same cells, and the same   *)
(* walls left unless all groups are merged), so that both runs end alike.  *)
(***************************************************************************)
\* a step of Kruskal generation, on the grid whose wall list is shuffled
kruskalStepTaken ==
    /\ rows = ShuffledSize
    /\ KruskalOneStepButton \/ kruskalPlay \/ kruskalStepLoop

kruskalStepOnManualRun ==
    \E n \in 0 .. Cardinality(RoomIds) :
        \E m \in {kruskalPresses([walls |-> wallsList, parents |-> groupParents,
                                  sizes |-> groupSizes, cells |-> cells,
                                  steps |-> 0, merged |-> 0], numGroups, n)} :
            /\ cells' = m.cells
            /\ numGroups' = numGroups - m.merged
            /\ wallsList' = m.walls \/ numGroups' <= 1

\* dijkstraOneStep(true) pressed up to n times, until the target is visited
RECURSIVE kruskalSearchPresses(_, _, _, _)
kruskalSearchPresses(st, src, tgt, n) ==
    IF n = 0 \/ st.visited[tgt] THEN st
    ELSE CHOOSE end \in {kruskalSearchPresses(next, src, tgt, n - 1) :
                            next \in {kruskalDijkstraOneStep(st, TRUE, DijkstraChunkUnit,
                                                             src, tgt).st}} : TRUE

\* a step of the search that is under way for the current source and target
searchStepTaken ==
    /\ searchSet
    /\ ~visited[target]
    /\ \/ KruskalDijkstraOneStepButton
       \/ kruskalDijkstraPlay /\ dijkstraPaused
       \/ /\ kruskalDijkstraStepLoop
          /\ Head(rafQueue).source = source
          /\ Head(rafQueue).target = target

searchStepOnManualRun ==
    \E n \in 0 .. (rows + cols) \div DijkstraChunkUnit + 1 :
        \E m \in {kruskalSearchPresses(searchState, source, target, n)} :
            /\ cells' = m.cells
            /\ visited' = m.visited
            /\ distances' = m.distances
            /\ predecessors' = m.predecessors
            /\ dijkstraQueue' = m.queue

C11_ChunkingKeepsOutcome ==
    [][/\ kruskalStepTaken => kruskalStepOnManualRun
       /\ searchStepTaken => searchStepOnManualRun]_vars

\* a search on the large maze completed while the play chunk size of two
\* steps was in force, after an odd number of cells had been visited
C11_Witness ==
    /\ rows = ChunkedSize
    /\ searchSet /\ visited[target]
    /\ dijkstraChunkSizeRef = 2 * DijkstraChunkUnit
    /\ Cardinality(visitedCells) % 2 = 1
    /\ Cardinality(visitedCells) > 3

(***************************************************************************)
(* C12.  Once the target is visited, every further call of the search step *)
(* of the Kruskal component leaves distances, visited flags, predecessors  *)
(* and the queue as they are and the target visited, whatever the queue    *)
(* holds at completion, an empty queue included.                           *)
(***************************************************************************)
\* dijkstraOneStep is called for the current source and target
searchStepCalled ==
    \/ KruskalDijkstraOneStepButton
    \/ /\ kruskalDijkstraStepLoop
       /\ dijkstraRunningRef
       /\ Head(rafQueue).source = source
       /\ Head(rafQueue).target = target

C12_StepAfterTargetIsNoOp ==
    [][(searchSet /\ visited[target] /\ searchStepCalled)
          => /\ UNCHANGED <<distances, visited, predecessors, dijkstraQueue>>
             /\ visited'[target]]_vars

(***************************************************************************)
(* C13.  In every reachable state of the grid drawer the cells at the      *)
(* recorded source and target positions are not blocked.                   *)
(***************************************************************************)
C13_EndpointsNeverBlocked ==
    /\ source # Null => cells[source] # "blocked"
    /\ target # Null => cells[target] # "blocked"

(***************************************************************************)
(* C14.  In every reachable state of the grid drawer at most one cell has  *)
(* status source and at most one has status target, and the cell with      *)
(* status source (target) is the one at the recorded source (target)       *)
(* position; placing a new source (target) returns the previous source     *)
(* (target) cell to passage.                                               *)
(***************************************************************************)
cellsWithStatus(status) == {p \in Grid : cells[p] = status}

C14_MarkersAtRecordedPositions ==
    /\ cellsWithStatus("source") = IF source = Null THEN {} ELSE {source}
    /\ cellsWithStatus("target") = IF target = Null THEN {} ELSE {target}

(***************************************************************************)
(* C15.  Placing a new source or target in the grid drawer invalidates the *)
(* search in progress: afterwards the continuous search loop is stopped,   *)
(* no cell has status visited or shortestPath, and once both endpoints are *)
(* set the search state is the initial one for the new endpoints, with no  *)
(* entry of the old search in the queue.                                   *)
(***************************************************************************)
C15_PlacingInvalidatesSearch ==
    [][drawerPlace =>
          /\ ~dijkstraRunningRef' /\ ~dijkstraRunning'
          /\ \A p \in Grid : cells'[p] \notin {"visited", "shortestPath"}
          /\ (source' # Null /\ target' # Null) =>
                /\ \A p \in Grid : ~visited'[p]
                /\ \A p \in Grid : distances'[p] = IF p = source' THEN 0 ELSE Infinity
                /\ \A p \in Grid \ {source'} : predecessors'[p] = Null
                /\ dijkstraQueue' = <<[p |-> source', dist |-> 0]>>]_vars

\* a frame of the play that searched from the previous source still waits
\* after the source has been placed elsewhere
C15_Witness ==
    /\ source # Null /\ target # Null
    /\ \E k \in 1 .. Len(rafQueue) :
          /\ rafQueue[k].fn = "dijkstraStepLoop"
          /\ rafQueue[k].source # source
    /\ ~dijkstraRunningRef
    /\ dijkstraQueue = <<[p |-> source, dist |-> 0]>>

(***************************************************************************)
(* C16.  Drawing a blocked or passage cell in the grid drawer, source and  *)
(* target being set, clears the search state: after the edit no cell is    *)
(* marked visited, the queue holds                                         *)
(* no entry computed on the grid before the edit, and distances and        *)
(* predecessors are reset.                                                 *)
(***************************************************************************)
C16_EditClearsSearch ==
    [][(searchSet /\ (drawerPaint \/ drawerEdit)) =>
          /\ \A p \in Grid : ~visited'[p] /\ cells'[p] # "visited"
          /\ \A k \in 1 .. Len(dijkstraQueue') : dijkstraQueue'[k].p = source
          /\ \A p \in Grid \ {source} :
                distances'[p] = Infinity /\ predecessors'[p] \in {Null, <<-1, -1>>}]_vars

(***************************************************************************)
(* C17.  After "Stop" has set the running flag of Kruskal generation to    *)
(* false, the invocation of the step loop that was already scheduled makes *)
(* no step and schedules no further one, and the flag stays false, so the  *)
(* loop makes no step, until "Play" is pressed again.  (Every handler of   *)
(* the model runs a chunk it has started to its end.)                      *)
(***************************************************************************)
kruskalGeneration == <<cells, wallsList, groupParents, groupSizes, numGroups, isMazeComplete>>

C17_StoppedLoopMakesNoStep ==
    [][/\ kruskalStop => ~kruskalRunningRef'
       /\ (kruskalStepLoop /\ ~kruskalRunningRef) =>
             /\ UNCHANGED kruskalGeneration
             /\ ~kruskalRunningRef'
             /\ rafQueue' = Tail(rafQueue)
       /\ (~kruskalRunningRef /\ kruskalRunningRef') => kruskalPlay]_vars

\* the loop was stopped while generation was under way, and the invocation
\* it had scheduled still waits
C17_Witness ==
    /\ ~kruskalRunningRef
    /\ ~kruskalRunning
    /\ kruskalChunkSizeRef = 1
    /\ rafQueue # << >>
    /\ Head(rafQueue).fn = "kruskalStepLoop"
    /\ ~isMazeComplete
    /\ wallsList # << >>
    /\ numGroups > 1
    /\ numGroups < Cardinality(RoomIds)

(***************************************************************************)
(* C18.  Once a path reveal has been cancelled (by "Clear Dijkstra" or by  *)
(* placing a new endpoint), the frames of that reveal set no further cell  *)
(* to shortestPath, whatever steps and reveals are started afterwards.     *)
(***************************************************************************)
C18_CancelledRevealPaintsNothing ==
    [][(kruskalAnimationStep /\ Head(rafQueue).cancelled) => cells' = cells]_vars

(***************************************************************************)
(* C19.  Kruskal generation is complete when the counter of live groups    *)
(* reaches 1: the call of the step that makes the last merge reports done  *)
(* and marks the maze complete, in manual stepping and in play alike.      *)
(***************************************************************************)
C19_LastMergeReportsDone ==
    [][(/\ KruskalOneStepButton \/ kruskalPlay \/ kruskalStepLoop
        /\ numGroups > 1
        /\ numGroups' = 1) => isMazeComplete']_vars

(***************************************************************************)
(* C20.  Under continuous Prim play that is neither stopped nor cleared,   *)
(* the frontier list eventually becomes empty, generation is then marked   *)
(* complete and the running flag is cleared; and a Prim step on an empty   *)
(* frontier list changes no cell.                                          *)
(***************************************************************************)
primCompleted ==
    /\ frontierList = << >>
    /\ isMazeComplete
    /\ ~primRunningRef
    /\ ~primRunning

\* primOneStep on the empty frontier list and the cells of the state, with
\* either chunk size
emptyFrontierStepKeepsCells ==
    \A chunkSize \in {PrimChunkUnit, cols + rows} :
        \A r \in primLoop([frontier |-> << >>, cells |-> cells], 0, chunkSize) :
            r.cells = cells /\ r.frontier = << >>

C20_PrimPlayCompletes ==
    /\ primRunningRef ~> primCompleted
    /\ [](frontierList = << >> => emptyFrontierStepKeepsCells)

\* play has emptied the frontier list
C20_Witness ==
    /\ primCompleted
    /\ primChunkSizeRef = cols + rows
    /\ rafQueue = << >>
    /\ \A p \in Grid : cells[p] \in {"passage", "blocked"}
    /\ \E p \in Grid : cells[p] = "passage"

(***************************************************************************)
(* C21.  "Clear Dijkstra" of the grid drawer, pressed with source and      *)
(* target on two cells, clears the results of the search only: every cell  *)
(* that was blocked is still blocked, every cell that was visited or       *)
(* shortestPath is passage, and source and target are unchanged and their  *)
(* cells carry the status source and target.                               *)
(***************************************************************************)
C21_ClearDijkstraKeepsWalls ==
    [][(drawerClearDijkstraResults /\ source # target) =>
          /\ \A p \in Grid : cells[p] = "blocked" => cells'[p] = "blocked"
          /\ \A p \in Grid : cells[p] \in {"visited", "shortestPath"} => cells'[p] = "passage"
          /\ source' = source /\ target' = target
          /\ cells'[source] = "source"
          /\ cells'[target] = "target"]_vars

(***************************************************************************)
(* C22.  "Clear All" of the grid drawer leaves every cell a passage and    *)
(* source and target unset, and from then on, until a new source and a new *)
(* target are placed, no step of the search changes a cell or one of the   *)
(* search arrays, also when it is pressed while play is running.           *)
(***************************************************************************)
C22_ClearAllEndsSearch ==
    [][/\ drawerClearMaze =>
             /\ \A p \in Grid : cells'[p] = "passage"
             /\ source' = Null /\ target' = Null
       /\ ((source = Null \/ target = Null)
             /\ (DrawerOneStepButton \/ drawerDijkstraPlay \/ drawerDijkstraStepLoop)) =>
             UNCHANGED <<cells, visited, distances, predecessors, dijkstraQueue>>]_vars

(***************************************************************************)
(* C23.  In every maze component a source or a target is placed, and a     *)
(* step of the search changes the grid, only while generation is complete  *)
(* (in the second Prim variant: while the frontier list is empty), so that *)
(* no step of the generator follows a step of the search on the same grid. *)
(***************************************************************************)
gridSearched == \E p \in Grid : cells[p] \in {"source", "target", "visited", "shortestPath"}

C23_SearchOnlyOnCompleteMaze ==
    [][/\ secondHandleMouseClick => frontierList = << >>
       /\ (SecondDijkstraOneStepButton /\ cells' # cells) => frontierList = << >>
       /\ (SecondPrimOneStepButton /\ cells' # cells) => ~gridSearched]_vars

(***************************************************************************)
(* C24.  Every (re)initialization of the search state of the grid drawer   *)
(* with source and target both set leaves all distances infinite except    *)
(* distance[source] = 0, no cell visited, every predecessor none except    *)
(* that of the source, and the queue exactly [(source, 0)].  The           *)
(* predecessor of the source is the source itself after the source/target  *)
(* effect and in "Play Dijkstra", and none after "Clear Dijkstra".         *)
(***************************************************************************)
\* the initial search arrays for the source src; selfPred tells whether the
\* source is its own predecessor
freshSearch(src, selfPred) ==
    [visited |-> [p \in Grid |-> FALSE],
     distances |-> [p \in Grid |-> IF p = src THEN 0 ELSE Infinity],
     predecessors |-> [p \in Grid |-> IF p = src /\ selfPred THEN src ELSE Null],
     queue |-> <<[p |-> src, dist |-> 0]>>]

\* the step leaves the search arrays f
arraysBecome(f) ==
    /\ visited' = f.visited
    /\ distances' = f.distances
    /\ predecessors' = f.predecessors
    /\ dijkstraQueue' = f.queue

\* the first chunk of "Play Dijkstra" runs on the arrays f and the grid
\* without the results of the previous search
playStartsFrom(f) ==
    searchState' =
        drawerLoop([cells |-> drawerCleared(cells, source, target).cells,
                    visited |-> f.visited, distances |-> f.distances,
                    predecessors |-> f.predecessors, queue |-> f.queue],
                   0, dijkstraChunkSizeRef, target)

C24_InitializationIsFresh ==
    [][/\ (drawerPlace /\ source' # Null /\ target' # Null) =>
             arraysBecome(freshSearch(source', TRUE))
       /\ (drawerDijkstraPlay /\ ~dijkstraPaused) => playStartsFrom(freshSearch(source, TRUE))
       /\ drawerClearDijkstraResults => arraysBecome(freshSearch(source, FALSE))]_vars

\* the claim as first stated: the source is its own predecessor after every
\* initialization, the one of "Clear Dijkstra" included
C24_SourceIsOwnPredecessor ==
    [][/\ (drawerPlace /\ source' # Null /\ target' # Null) =>
             arraysBecome(freshSearch(source', TRUE))
       /\ drawerClearDijkstraResults => arraysBecome(freshSearch(source, TRUE))]_vars

\* "Clear Dijkstra" has initialized the search
C24_Witness ==
    /\ source # Null /\ target # Null
    /\ dijkstraQueue = <<[p |-> source, dist |-> 0]>>
    /\ distances[source] = 0
    /\ predecessors[source] = Null
    /\ \A p \in Grid : ~visited[p]

(***************************************************************************)
(* C25.  The search step of the Kruskal component stops the instant its    *)
(* target becomes visited: the call in which the target is popped leaves   *)
(* the search state as it is right after that pop, and once the target is  *)
(* visited no later call for that target marks a cell visited unless it    *)
(* re-initializes the search (which the step does on an empty queue).      *)
(***************************************************************************)
\* dijkstraOneStep is called, on the search state as it stands, from a render
\* whose source and target are src and tgt
searchStepCalledFor(src, tgt) ==
    \/ KruskalDijkstraOneStepButton /\ src = source /\ tgt = target
    \/ kruskalDijkstraPlay /\ dijkstraPaused /\ ~dijkstraRunningRef
          /\ src = source /\ tgt = target
    \/ kruskalDijkstraStepLoop /\ dijkstraRunningRef
          /\ src = Head(rafQueue).source /\ tgt = Head(rafQueue).target

\* the state the step leaves is the one right after the pop that visited
\* tgt, the pops before it counted from the state st0
targetPoppedLast(st0, tgt) ==
    \E k \in 0 .. (rows + cols) \div DijkstraChunkUnit :
        \E before \in {drawerLoop(st0, 0, k * DijkstraChunkUnit, tgt)} :
            /\ ~before.visited[tgt]
            /\ \E after \in {drawerLoop(before, 0, DijkstraChunkUnit, tgt)} :
                  /\ after.visited[tgt]
                  /\ searchState' = after

C25_StepStopsAtTarget ==
    [][\A src \in mazeSourceCells, tgt \in mazeTargetCells :
          /\ (searchStepCalledFor(src, tgt) /\ ~visited[tgt] /\ visited'[tgt]) =>
                targetPoppedLast(IF dijkstraQueue = << >>
                                 THEN kruskalDijkstraInitialization(searchState, src, tgt)
                                 ELSE searchState, tgt)
          /\ (searchStepCalledFor(src, tgt) /\ visited[tgt] /\ dijkstraQueue # << >>) =>
                visited' = visited]_vars

\* a call that could pop two entries found the target and left entries in
\* the queue; the path reveal it requested waits
C25_Witness ==
    /\ rows = ChunkedSize
    /\ searchSet /\ visited[target]
    /\ dijkstraChunkSizeRef = 2 * DijkstraChunkUnit
    /\ dijkstraQueue # << >>
    /\ ~dijkstraRunningRef
    /\ rafQueue # << >> /\ Head(rafQueue).fn = "step"

(***************************************************************************)
(* C26.  In the Kruskal component no search step and no step of the path   *)
(* reveal changes the status of the source cell or of the target cell:     *)
(* the cell at the source position keeps the status source and the cell at *)
(* the target position the status target, also once they are visited.      *)
(***************************************************************************)
searchOrRevealStep ==
    \/ KruskalDijkstraOneStepButton
    \/ kruskalDijkstraPlay
    \/ kruskalDijkstraStepLoop
    \/ kruskalAnimationStep

C26_StepsKeepEndpointMarkers ==
    [][searchOrRevealStep =>
          /\ (source # Null /\ cells[source] = "source") => cells'[source] = "source"
          /\ (target # Null /\ cells[target] = "target") => cells'[target] = "target"]_vars

(***************************************************************************)
(* Union-find: the trees of a parent map, read without findRoot.           *)
(***************************************************************************)
\* the id reached from id after at most `hops` parent pointers
RECURSIVE idAfter(_, _, _)
idAfter(parents, id, hops) ==
    IF parents[id] = id \/ hops = 0 THEN id
    ELSE idAfter(parents, parents[id], hops - 1)

\* the root of id's tree (a root when the parent map has no cycle)
rootIn(parents, id) == idAfter(parents, id, Cardinality(DOMAIN parents))

\* id and the ids on its parent chain, the root left out
chainOf(parents, id) ==
    {idAfter(parents, id, hops) : hops \in 0 .. Cardinality(DOMAIN parents)}
        \ {rootIn(parents, id)}

rootsOf(parents) == {id \in DOMAIN parents : parents[id] = id}

C28_TieKeepsFirstRoot ==
    \A id1 \in UnionArgs, id2 \in UnionArgs :
        LET root1 == rootIn(groupParents, id1)
            root2 == rootIn(groupParents, id2)
            u == union(groupParents, groupSizes, id1, id2)
        IN  (root1 # root2 /\ groupSizes[root1] = groupSizes[root2]) =>
               /\ u.parents[root1] = root1
               /\ u.parents[root2] = root1
               /\ u.sizes[root1] = 2 * groupSizes[root1]

\* the claim as first stated: the root of b becomes the root
C28_TieKeepsSecondRoot ==
    \A id1 \in UnionArgs, id2 \in UnionArgs :
        LET root1 == rootIn(groupParents, id1)
            root2 == rootIn(groupParents, id2)
            u == union(groupParents, groupSizes, id1, id2)
        IN  (root1 # root2 /\ groupSizes[root1] = groupSizes[root2]) =>
               /\ u.parents[root2] = root2
               /\ u.parents[root1] = root2

\* two trees of two ids each have been united
C28_Witness ==
    \E r \in rootsOf(groupParents) :
        /\ groupSizes[r] = 4
        /\ \E c \in DOMAIN groupParents :
              c # r /\ groupParents[c] = r /\ groupSizes[c] = 2

(***************************************************************************)
(* C29.  findRoot(id) returns the root of id's tree and compresses the     *)
(* path: afterwards id and every id on its former parent chain point       *)
(* directly at that root, every id has the root it had (so the groups and  *)
(* the set of roots are the same), and a second findRoot(id) returns the   *)
(* same root.                                                              *)
(***************************************************************************)
C29_FindRootCompresses ==
    \A id \in UnionArgs :
        LET f == findRoot(groupParents, id)
            root == rootIn(groupParents, id)
        IN  /\ groupParents[root] = root
            /\ f.root = root
            /\ \A c \in chainOf(groupParents, id) : f.parents[c] = root
            /\ \A other \in DOMAIN groupParents :
                  rootIn(f.parents, other) = rootIn(groupParents, other)
            /\ rootsOf(f.parents) = rootsOf(groupParents)
            /\ findRoot(f.parents, id).root = root

\* a tree that was hung under another one has been compressed: it had two
\* ids or more, and every id now points at a root
C29_Witness ==
    /\ \E m \in DOMAIN groupParents : groupParents[m] # m /\ groupSizes[m] >= 2
    /\ \A id \in DOMAIN groupParents : groupParents[groupParents[id]] = groupParents[id]

(***************************************************************************)
(* C30.  After kruskalInitialization and any sequence of Kruskal steps,    *)
(* following the parent pointers from any group id reaches a root r with   *)
(* parent[r] = r, and the number of roots equals the live-group counter,   *)
(* which equals the number of rooms minus the number of carved walls.      *)
(***************************************************************************)
carvedWalls == {p \in Grid : ~isRoom(p[1], p[2]) /\ cells[p] = "passage"}

C30_ForestMatchesCounter ==
    /\ \A id \in RoomIds : groupParents[rootIn(groupParents, id)] = rootIn(groupParents, id)
    /\ Cardinality(rootsOf(groupParents)) = numGroups
    /\ numGroups = Cardinality(RoomIds) - Cardinality(carvedWalls)

\* several walls are carved and some id is two pointers away from its root
C30_Witness ==
    /\ Cardinality(carvedWalls) >= 3
    /\ \E id \in RoomIds : groupParents[groupParents[id]] # groupParents[id]

(***************************************************************************)
(* C31.  In Prim generation no cell is pushed to the frontier list while   *)
(* it waits there: the frontier list never holds the same position twice,  *)
(* also when a waiting cell is reached from a second direction.            *)
(***************************************************************************)
frontierHasDuplicate ==
    \E i \in 1 .. Len(frontierList), j \in 1 .. Len(frontierList) :
        i # j /\ frontierList[i] = frontierList[j]

C31_FrontierHoldsCellOnce == ~frontierHasDuplicate

\* the claim as first stated: generation comes to a state in which the
\* frontier list holds a position more than once
C31_FrontierHoldsCellTwice == <>frontierHasDuplicate

\* a cell waits on the frontier list with passages at distance 2 on two sides
C31_Witness ==
    \E i \in 1 .. Len(frontierList) :
        Len(passageNeighbours([cells |-> cells], frontierList[i])) >= 2

(***************************************************************************)
(* C32.  A Prim step that pops a frontier cell with a passage at distance  *)
(* 2 sets exactly two cells to passage, the popped cell and the cell       *)
(* between it and one of its passage neighbours, gives every in-bounds     *)
(* cell at distance 2 of the popped cell that is still blocked the status  *)
(* frontier and appends it to the list; no other cell changes, and no      *)
(* passage stops being one.                                                *)
(***************************************************************************)
\* primOneStep runs, the frontier list not being empty
primStepTaken ==
    /\ Len(frontierList) > 0
    /\ \/ PrimOneStepButton
       \/ primPlay /\ ~primRunningRef
       \/ primStepLoop /\ primRunningRef

\* the cells of the grid two cells away from p along a row or a column
atDistanceTwo(p) ==
    {q \in Grid : \/ q[2] = p[2] /\ (q[1] = p[1] + 2 \/ q[1] = p[1] - 2)
                  \/ q[1] = p[1] /\ (q[2] = p[2] + 2 \/ q[2] = p[2] - 2)}

\* the step has popped frontierList[i] and carved towards neighbor
poppedAndCarved(i, neighbor) ==
    LET p == frontierList[i]
        between == <<(p[1] + neighbor[1]) \div 2, (p[2] + neighbor[2]) \div 2>>
        fresh == {q \in atDistanceTwo(p) : cells[q] = "blocked"}
        kept == Len(frontierList) - 1
    IN  /\ {q \in Grid : cells'[q] = "passage" /\ cells[q] # "passage"} = {p, between}
        /\ \A q \in fresh : cells'[q] = "frontier"
        /\ \A q \in Grid \ ({p, between} \cup fresh) : cells'[q] = cells[q]
        /\ Len(frontierList') = kept + Cardinality(fresh)
        /\ SubSeq(frontierList', 1, kept) = RemoveAt(frontierList, i)
        /\ {frontierList'[k] : k \in kept + 1 .. Len(frontierList')} = fresh

nextTo(p, q) ==
    \/ p[1] = q[1] /\ (p[2] = q[2] + 1 \/ q[2] = p[2] + 1)
    \/ p[2] = q[2] /\ (p[1] = q[1] + 1 \/ q[1] = p[1] + 1)

\* the path a reveal holds goes from its target to its source over cells that
\* are next to each other, through no cell twice
pathIsChain(f) ==
    /\ Len(f.path) >= 1
    /\ f.path[1] = f.target
    /\ f.path[Len(f.path)] = f.source
    /\ \A k \in 1 .. Len(f.path) - 1 : nextTo(f.path[k], f.path[k + 1])
    /\ \A k \in 1 .. Len(f.path), l \in 1 .. Len(f.path) : k # l => f.path[k] # f.path[l]

\* the reveals that wait have set path[1] .. path[i - 1] (counted from 0) and
\* hold a chain
revealsHoldChains ==
    \A k \in 1 .. Len(rafQueue) :
        rafQueue[k].fn = "step" =>
            /\ pathIsChain(rafQueue[k])
            /\ rafQueue[k].i >= 1
            /\ rafQueue[k].i <= IF Len(rafQueue[k].path) > 1 THEN Len(rafQueue[k].path) - 1 ELSE 1

\* a reveal that has just been requested holds the chain of the predecessors
\* as they are
newRevealFollowsPredecessors ==
    (/\ Len(rafQueue') > 0
     /\ rafQueue'[Len(rafQueue')].fn = "step"
     /\ rafQueue'[Len(rafQueue')].i = 1
     /\ \A k \in 1 .. Len(rafQueue) : rafQueue[k] # rafQueue'[Len(rafQueue')]) =>
        LET f == rafQueue'[Len(rafQueue')]
        IN  /\ pathIsChain(f)
            /\ \A k \in 1 .. Len(f.path) - 1 : f.path[k + 1] = predecessors'[f.path[k]]

\* the step served sets the next cell strictly inside the path, or ends the
\* reveal when all of them are set
revealStepSetsInnerCell ==
    (drawerAnimationStep /\ shortestPathAnimating) =>
        LET f == Head(rafQueue)
            n == Len(f.path)
        IN  IF f.i >= n - 1
            THEN /\ cells' = cells
                 /\ rafQueue' = Tail(rafQueue)
            ELSE /\ f.path[f.i + 1] \notin {f.source, f.target}
                 /\ cells' = [cells EXCEPT ![f.path[f.i + 1]] = "shortestPath"]
                 /\ rafQueue'[Len(rafQueue')] = [f EXCEPT !.i = f.i + 1]

C33_RevealSetsInnerCells ==
    [][/\ revealsHoldChains
       /\ newRevealFollowsPredecessors
       /\ revealStepSetsInnerCell]_vars

\* a reveal of a path with two cells or more between the ends has run to its
\* end: the cells between are shortestPath, the ends keep their markers
C33_Witness ==
    /\ searchSet /\ pathFound /\ pathLength >= 2
    /\ ~shortestPathAnimating /\ rafQueue = << >>
    /\ cells[source] = "source" /\ cells[target] = "target"
    /\ Cardinality({p \in Grid : cells[p] = "shortestPath"}) = pathLength

(***************************************************************************)
(* C34.  Under continuous Kruskal play that is neither stopped nor         *)
(* cleared, generation eventually reaches complete: a step call returns    *)
(* done, the running flag is cleared, the maze is marked complete and no   *)
(* animation frame is requested any more.                                  *)
(***************************************************************************)
kruskalCompleted ==
    /\ isMazeComplete
    /\ ~kruskalRunningRef
    /\ ~kruskalRunning
    /\ rafQueue = << >>

\* serving the frame that waits drops it or pops a wall
servedFrameChangesState ==
    \/ kruskalLoopHalted
    \/ \A r \in kruskalOneStep(FALSE, Head(rafQueue).numGroups) :
          r.done \/ Len(r.walls) < Len(wallsList)

C34_KruskalPlayCompletes ==
    /\ kruskalRunningRef ~> kruskalCompleted
    /\ [](kruskalFrameWaits => servedFrameChangesState)

\* play has run to the end: one group, complete, nothing waits
C34_Witness ==
    /\ kruskalCompleted
    /\ numGroups = 1
    /\ kruskalChunkSizeRef = (cols + rows) \div 4

(***************************************************************************)
(* C35.  Continuous play calls the step of an algorithm at most once per   *)
(* animation frame: of each of the loops kruskalStepLoop, primStepLoop and *)
(* dijkstraStepLoop at most one callback waits at any time, whatever the   *)
(* order of play presses, stop presses and served frames.                  *)
(***************************************************************************)
waitingCallbacks(fn) == {k \in 1 .. Len(rafQueue) : rafQueue[k].fn = fn}

C35_OneLoopCallbackWaits ==
    \A fn \in {"kruskalStepLoop", "primStepLoop", "dijkstraStepLoop"} :
        Cardinality(waitingCallbacks(fn)) <= 1

(***************************************************************************)
(* C36.  In the Prim generator the frontier list and the cells with status *)
(* frontier are the same cells: every position on the list has status      *)
(* frontier, every cell with status frontier is on the list, and each of   *)
(* them has a passage at distance 2.  So a step turns every cell it pops   *)
(* into a passage (no popped cell is discarded), and when the list is      *)
(* empty no cell has status frontier.                                      *)
(***************************************************************************)
frontierCells == {p \in Grid : cells[p] = "frontier"}

frontierPositions == {frontierList[k] : k \in 1 .. Len(frontierList)}

frontierListMatchesCells ==
    /\ frontierPositions = frontierCells
    /\ \A p \in frontierCells : \E q \in atDistanceTwo(p) : cells[q] = "passage"
    /\ Len(frontierList) = 0 => frontierCells = {}

poppedCellsAreCarved ==
    \A p \in frontierPositions : p \notin frontierCells' => cells'[p] = "passage"

queueHoldsCellTwice ==
    \E i \in 1 .. Len(dijkstraQueue), j \in 1 .. Len(dijkstraQueue) :
        i # j /\ dijkstraQueue[i].p = dijkstraQueue[j].p

queueHoldsVisitedCell ==
    \E k \in 1 .. Len(dijkstraQueue) : visited[dijkstraQueue[k].p]

C37_QueueHoldsCellOnce == ~queueHoldsCellTwice /\ ~queueHoldsVisitedCell

\* a cell waits on the queue while two of the cells next to it are visited:
\* the second of them found the distance it offered already taken
C37_Witness ==
    \E k \in 1 .. Len(dijkstraQueue) :
        Cardinality({q \in Grid : nextTo(q, dijkstraQueue[k].p) /\ visited[q]}) >= 2

(***************************************************************************)
(* C38.  Every cell a Prim step reads or writes lies inside the grid held  *)
(* when the step runs, also when the maze size slider is moved while       *)
(* continuous play is running.                                             *)
(***************************************************************************)
\* the cells primOneStep of the render closure f touches when it pops p: p
\* itself and the cells at distance 2 inside the closure's bounds (the cell
\* in between lies between two of them)
touchedBy(f, p) ==
    {p} \cup {twoAway(p)[k] : k \in {n \in 1 .. 4 : inBoundsOf(f, twoAway(p)[n])}}

\* the step popped frontierList[i]
stepDrew(i) ==
    /\ Len(frontierList') >= Len(frontierList) - 1
    /\ SubSeq(frontierList', 1, Len(frontierList) - 1) = RemoveAt(frontierList, i)

C38_PrimStepStaysInGrid ==
    [][primStepLoopOfRender /\ primRunningRef =>
          \A i \in 1 .. Len(frontierList) :
              stepDrew(i) => touchedBy(Head(rafQueue), frontierList[i]) \subseteq Grid]_vars

(***************************************************************************)
(* C39.  The path length the grid drawer reports once a path is found is   *)
(* never negative, wherever the drawer lets the source and the target be   *)
(* placed.                                                                 *)
(***************************************************************************)
C39_PathLengthNotNegative == pathFound => pathLength >= 0
====
